---- MODULE Spec2Model ----
(***************************************************************************)
(* A model of the selective-disclosure engine of sd-jwt-payload:           *)
(* disclosures (src/src/disclosure.rs), the SD object encoder              *)
(* (src/src/encoder.rs), the decoder (src/src/decoder.rs), the SD-JWT wire *)
(* format (src/src/sd_jwt.rs, src/src/jwt.rs) and the presentation builder *)
(* (src/src/sd_jwt.rs).                                                    *)
(*                                                                         *)
(* Strings are sequences of byte values (ASCII codes), so that formatting, *)
(* JSON serialisation, JSON parsing and base64 are computed as the code    *)
(* computes them.  A JSON value is a record with a single field naming its *)
(* type: [nul |-> TRUE], [bool |-> b], [num |-> n], [str |-> s],           *)
(* [arr |-> <<v1, ..., vn>>], [obj |-> m] with m a function from keys to   *)
(* values.  serde_json's Map is a BTreeMap (no preserve_order feature):    *)
(* iteration and serialisation go in ascending key order, equality does    *)
(* not depend on order.                                                    *)
(***************************************************************************)
EXTENDS Integers, Sequences, FiniteSets, TLC

(***************************************************************************)
(* Characters.                                                             *)
(***************************************************************************)
Ch == [quote |-> 34, bslash |-> 92, slash |-> 47, comma |-> 44, colon |-> 58,
       lbrack |-> 91, rbrack |-> 93, lbrace |-> 123, rbrace |-> 125,
       space |-> 32, tab |-> 9, lf |-> 10, cr |-> 13,
       tilde |-> 126, dot |-> 46, plus |-> 43, minus |-> 45, under |-> 95,
       qmark |-> 63, zero |-> 48, nine |-> 57,
       a |-> 97, b |-> 98, c |-> 99, f |-> 102, n |-> 110, r |-> 114,
       s |-> 115, t |-> 116, u |-> 117, x |-> 120, y |-> 121, z |-> 122]

STrue  == <<116, 114, 117, 101>>          \* "true"
SFalse == <<102, 97, 108, 115, 101>>      \* "false"
SNull  == <<110, 117, 108, 108>>          \* "null"

DIGESTS_KEY      == <<95, 115, 100>>                      \* "_sd"
ARRAY_DIGEST_KEY == <<46, 46, 46>>                        \* "..."
SD_ALG           == <<95, 115, 100, 95, 97, 108, 103>>    \* "_sd_alg"
SHA_ALG_NAME     == <<115, 104, 97, 45, 50, 53, 54>>      \* "sha-256"

(***************************************************************************)
(* JSON values.                                                            *)
(***************************************************************************)
JNull    == [nul |-> TRUE]
JBool(b) == [bool |-> b]
JNum(n)  == [num |-> n]
JStr(s)  == [str |-> s]
JArr(a)  == [arr |-> a]
JObj(m)  == [obj |-> m]

IsNull(v) == "nul" \in DOMAIN v
IsBool(v) == "bool" \in DOMAIN v
IsNum(v)  == "num" \in DOMAIN v
IsStr(v)  == "str" \in DOMAIN v
IsArr(v)  == "arr" \in DOMAIN v
IsObj(v)  == "obj" \in DOMAIN v

EmptyMap == [k \in {} |-> JNull]

\* Map::insert: the value under `k` is replaced or added.
MapInsert(m, k, v) == [x \in (DOMAIN m) \cup {k} |-> IF x = k THEN v ELSE m[x]]
\* Map::remove.
MapRemove(m, k) == [x \in (DOMAIN m) \ {k} |-> m[x]]

\* Byte-wise lexicographic order of strings: the order of BTreeMap<String, _>.
StrLess(s, t) ==
  \/ /\ Len(s) < Len(t)
     /\ \A i \in 1..Len(s) : s[i] = t[i]
  \/ \E i \in 1..Len(s) :
       /\ i <= Len(t)
       /\ s[i] < t[i]
       /\ \A j \in 1..(i - 1) : s[j] = t[j]

RECURSIVE SortedSeq(_)
SortedSeq(S) ==
  IF S = {} THEN <<>>
  ELSE LET least == CHOOSE k \in S : \A o \in S : o = k \/ StrLess(k, o)
       IN  <<least>> \o SortedSeq(S \ {least})

\* The keys of a map in iteration order.
Keys(m) == SortedSeq(DOMAIN m)

(***************************************************************************)
(* Base64 (multibase::Base::Base64 and Base64Url: RFC 4648, no padding).   *)
(***************************************************************************)
\* The character of a 6-bit group in the standard or the URL-safe alphabet.
Symbol(sextet, url) ==
  IF sextet < 26 THEN 65 + sextet
  ELSE IF sextet < 52 THEN 97 + (sextet - 26)
  ELSE IF sextet < 62 THEN 48 + (sextet - 52)
  ELSE IF sextet = 62 THEN (IF url THEN Ch.minus ELSE Ch.plus)
  ELSE (IF url THEN Ch.under ELSE Ch.slash)

\* The 6-bit group of a character, -1 when it is not in the alphabet.
SymbolValue(ch, url) ==
  IF ch >= 65 /\ ch <= 90 THEN ch - 65
  ELSE IF ch >= 97 /\ ch <= 122 THEN ch - 97 + 26
  ELSE IF ch >= 48 /\ ch <= 57 THEN ch - 48 + 52
  ELSE IF ch = (IF url THEN Ch.minus ELSE Ch.plus) THEN 62
  ELSE IF ch = (IF url THEN Ch.under ELSE Ch.slash) THEN 63
  ELSE 0 - 1

ByteAt(bytes, i) == IF i <= Len(bytes) THEN bytes[i] ELSE 0

Base64EncodeWith(bytes, url) ==
  LET n == Len(bytes)
      outLen == (4 * n + 2) \div 3
      Sextet(i) ==
        LET g  == (i - 1) \div 4
            k  == (i - 1) % 4
            b0 == ByteAt(bytes, 3 * g + 1)
            b1 == ByteAt(bytes, 3 * g + 2)
            b2 == ByteAt(bytes, 3 * g + 3)
        IN  CASE k = 0 -> b0 \div 4
              [] k = 1 -> (b0 % 4) * 16 + (b1 \div 16)
              [] k = 2 -> (b1 % 16) * 4 + (b2 \div 64)
              [] k = 3 -> b2 % 64
  IN  [i \in 1..outLen |-> Symbol(Sextet(i), url)]

\* Decoding: <<TRUE, bytes>> or <<FALSE, <<>>>> (a character outside the
\* alphabet, an impossible length, or non-zero trailing bits).
Base64DecodeWith(text, url) ==
  LET n == Len(text)
      val(i) == IF i <= n THEN SymbolValue(text[i], url) ELSE 0
      outLen == (3 * n) \div 4
      rem == n % 4
      trailingOk ==
        CASE rem = 0 -> TRUE
          [] rem = 1 -> FALSE
          [] rem = 2 -> val(n) % 16 = 0
          [] rem = 3 -> val(n) % 4 = 0
      Byte(j) ==
        LET g  == (j - 1) \div 3
            k  == (j - 1) % 3
            s0 == val(4 * g + 1)
            s1 == val(4 * g + 2)
            s2 == val(4 * g + 3)
            s3 == val(4 * g + 4)
        IN  CASE k = 0 -> s0 * 4 + (s1 \div 16)
              [] k = 1 -> (s1 % 16) * 16 + (s2 \div 4)
              [] k = 2 -> (s2 % 4) * 64 + s3
  IN  IF (\A i \in 1..n : val(i) >= 0) /\ trailingOk
      THEN <<TRUE, [j \in 1..outLen |-> Byte(j)]>>
      ELSE <<FALSE, <<>>>>

Base64Encode(bytes)    == Base64EncodeWith(bytes, FALSE)
Base64UrlEncode(bytes) == Base64EncodeWith(bytes, TRUE)
Base64UrlDecode(text)  == Base64DecodeWith(text, TRUE)

(***************************************************************************)
(* JSON text: serde_json's compact writer and its parser.                  *)
(***************************************************************************)
RECURSIVE Concat(_)
Concat(seqs) ==
  IF Len(seqs) = 0 THEN <<>>
  ELSE IF Len(seqs) = 1 THEN seqs[1]
  ELSE Concat(SubSeq(seqs, 1, Len(seqs) \div 2))
         \o Concat(SubSeq(seqs, Len(seqs) \div 2 + 1, Len(seqs)))

RECURSIVE Join(_, _)
Join(seqs, sep) ==
  IF Len(seqs) = 0 THEN <<>>
  ELSE IF Len(seqs) = 1 THEN seqs[1]
  ELSE seqs[1] \o sep \o Join(Tail(seqs), sep)

\* The digits of a natural number.
RECURSIVE Digits(_)
Digits(n) == IF n < 10 THEN <<Ch.zero + n>> ELSE Digits(n \div 10) \o <<Ch.zero + (n % 10)>>

\* A string literal: the quote and the backslash are escaped.
EscapeChar(ch) ==
  IF ch = Ch.quote \/ ch = Ch.bslash THEN <<Ch.bslash, ch>> ELSE <<ch>>
Quoted(s) == <<Ch.quote>> \o Concat([i \in 1..Len(s) |-> EscapeChar(s[i])]) \o <<Ch.quote>>

\* serde_json::to_string of a Value.
RECURSIVE to_string(_)
to_string(v) ==
  IF IsNull(v) THEN SNull
  ELSE IF IsBool(v) THEN (IF v.bool THEN STrue ELSE SFalse)
  ELSE IF IsNum(v) THEN Digits(v.num)
  ELSE IF IsStr(v) THEN Quoted(v.str)
  ELSE IF IsArr(v) THEN
    <<Ch.lbrack>> \o Join([i \in 1..Len(v.arr) |-> to_string(v.arr[i])], <<Ch.comma>>)
                  \o <<Ch.rbrack>>
  ELSE
    LET ks == Keys(v.obj)
    IN  <<Ch.lbrace>>
          \o Join([i \in 1..Len(ks) |-> Quoted(ks[i]) \o <<Ch.colon>> \o to_string(v.obj[ks[i]])],
                  <<Ch.comma>>)
          \o <<Ch.rbrace>>

\* Parser results: [ok, v, p] with p the position after the parsed text.
PFail == [ok |-> FALSE, v |-> JNull, p |-> 0]
POk(v, p) == [ok |-> TRUE, v |-> v, p |-> p]

IsWs(ch) == ch \in {Ch.space, Ch.tab, Ch.lf, Ch.cr}
IsDigit(ch) == ch >= Ch.zero /\ ch <= Ch.nine

RECURSIVE SkipWs(_, _)
SkipWs(t, p) == IF p <= Len(t) /\ IsWs(t[p]) THEN SkipWs(t, p + 1) ELSE p

HasAt(t, p, lit) ==
  /\ p + Len(lit) - 1 <= Len(t)
  /\ \A i \in 1..Len(lit) : t[p + i - 1] = lit[i]

\* The character an escape sequence stands for, -1 when it is no escape (\u
\* escapes are outside the modelled alphabet).
Unescape(ch) ==
  CASE ch = Ch.quote  -> Ch.quote
    [] ch = Ch.bslash -> Ch.bslash
    [] ch = Ch.slash  -> Ch.slash
    [] ch = Ch.b      -> 8
    [] ch = Ch.f      -> 12
    [] ch = Ch.n      -> Ch.lf
    [] ch = Ch.r      -> Ch.cr
    [] ch = Ch.t      -> Ch.tab
    [] OTHER          -> 0 - 1

\* The body of a string literal from position p (after the opening quote).
\* The characters before the next quote, backslash or control character are
\* taken at once; a text that ends before one ends inside the string.
RECURSIVE ParseStrBody(_, _, _)
ParseStrBody(t, p, acc) ==
  IF p > Len(t) THEN PFail
  ELSE IF t[p] = Ch.quote THEN POk(acc, p + 1)
  ELSE IF t[p] = Ch.bslash THEN
    IF p + 1 > Len(t) \/ Unescape(t[p + 1]) < 0 THEN PFail
    ELSE ParseStrBody(t, p + 2, Append(acc, Unescape(t[p + 1])))
  ELSE IF t[p] < Ch.space THEN PFail
  ELSE IF \E q \in p..Len(t) : t[q] = Ch.quote \/ t[q] = Ch.bslash \/ t[q] < Ch.space
  THEN ParseStrBody(
         t,
         CHOOSE q \in p..Len(t) :
           /\ t[q] = Ch.quote \/ t[q] = Ch.bslash \/ t[q] < Ch.space
           /\ \A j \in p..(q - 1) : t[j] # Ch.quote /\ t[j] # Ch.bslash /\ t[j] >= Ch.space,
         acc \o SubSeq(t, p,
                       (CHOOSE q \in p..Len(t) :
                          /\ t[q] = Ch.quote \/ t[q] = Ch.bslash \/ t[q] < Ch.space
                          /\ \A j \in p..(q - 1) :
                               t[j] # Ch.quote /\ t[j] # Ch.bslash /\ t[j] >= Ch.space) - 1))
  ELSE PFail

RECURSIVE ParseDigits(_, _, _)
ParseDigits(t, p, acc) ==
  IF p <= Len(t) /\ IsDigit(t[p]) THEN ParseDigits(t, p + 1, acc * 10 + (t[p] - Ch.zero))
  ELSE POk(JNum(acc), p)

RECURSIVE ParseValue(_, _)
RECURSIVE ParseElems(_, _, _)
RECURSIVE ParseMembers(_, _, _)

\* A JSON value from position p0, leading whitespace skipped.
ParseValue(t, p0) ==
  LET OfString(r) == IF r.ok THEN POk(JStr(r.v), r.p) ELSE PFail
      OfArray(p, q) ==
        IF q <= Len(t) /\ t[q] = Ch.rbrack THEN POk(JArr(<<>>), q + 1)
        ELSE ParseElems(t, p + 1, <<>>)
      OfObject(p, q) ==
        IF q <= Len(t) /\ t[q] = Ch.rbrace THEN POk(JObj(EmptyMap), q + 1)
        ELSE ParseMembers(t, p + 1, EmptyMap)
      At(p) ==
        IF p > Len(t) THEN PFail
        ELSE IF t[p] = Ch.quote THEN OfString(ParseStrBody(t, p + 1, <<>>))
        ELSE IF t[p] = Ch.lbrack THEN OfArray(p, SkipWs(t, p + 1))
        ELSE IF t[p] = Ch.lbrace THEN OfObject(p, SkipWs(t, p + 1))
        ELSE IF HasAt(t, p, STrue) THEN POk(JBool(TRUE), p + 4)
        ELSE IF HasAt(t, p, SFalse) THEN POk(JBool(FALSE), p + 5)
        ELSE IF HasAt(t, p, SNull) THEN POk(JNull, p + 4)
        ELSE IF t[p] = Ch.zero THEN
          \* a leading zero is a number of its own
          IF p + 1 <= Len(t) /\ IsDigit(t[p + 1]) THEN PFail ELSE POk(JNum(0), p + 1)
        ELSE IF IsDigit(t[p]) THEN ParseDigits(t, p, 0)
        ELSE PFail
  IN  At(SkipWs(t, p0))

\* The elements of an array from position p (an element is expected).
ParseElems(t, p, acc) ==
  LET After(r, q) ==
        IF q > Len(t) THEN PFail
        ELSE IF t[q] = Ch.comma THEN ParseElems(t, q + 1, Append(acc, r.v))
        ELSE IF t[q] = Ch.rbrack THEN POk(JArr(Append(acc, r.v)), q + 1)
        ELSE PFail
      One(r) == IF ~r.ok THEN PFail ELSE After(r, SkipWs(t, r.p))
  IN  One(ParseValue(t, p))

\* The members of an object from position p0 (a key is expected); a repeated
\* key replaces the earlier member.
ParseMembers(t, p0, acc) ==
  LET After(m, q) ==
        IF q > Len(t) THEN PFail
        ELSE IF t[q] = Ch.comma THEN ParseMembers(t, q + 1, m)
        ELSE IF t[q] = Ch.rbrace THEN POk(JObj(m), q + 1)
        ELSE PFail
      Pair(k, r) ==
        IF ~r.ok THEN PFail ELSE After(MapInsert(acc, k.v, r.v), SkipWs(t, r.p))
      Colon(k, c) ==
        IF c > Len(t) \/ t[c] # Ch.colon THEN PFail ELSE Pair(k, ParseValue(t, c + 1))
      Key(k) == IF ~k.ok THEN PFail ELSE Colon(k, SkipWs(t, k.p))
      At(p) ==
        IF p > Len(t) \/ t[p] # Ch.quote THEN PFail ELSE Key(ParseStrBody(t, p + 1, <<>>))
  IN  At(SkipWs(t, p0))

\* serde_json::from_slice::<Value>: one value, then only whitespace.
FromSlice(t) ==
  LET Whole(r) == IF r.ok /\ SkipWs(t, r.p) > Len(t) THEN r ELSE PFail
  IN  Whole(ParseValue(t, 1))

(***************************************************************************)
(* Options and results.                                                    *)
(***************************************************************************)
None    == <<>>
Some(v) == <<v>>
IsSome(o) == Len(o) = 1

Ok(v)          == [ok |-> v]
Err(kind, arg) == [err |-> <<kind, arg>>]
IsOk(r)        == "ok" \in DOMAIN r
IsErr(r, kind) == "err" \in DOMAIN r /\ r.err[1] = kind

(***************************************************************************)
(* Hasher (src/src/hasher.rs).  A hasher is named by its algorithm.  SHA-256 *)
(* is modelled by a collision-free function: the identity on byte strings. *)
(* Another registered algorithm prefixes its input with a byte.            *)
(***************************************************************************)
digest(hasher, input) ==
  IF hasher = SHA_ALG_NAME THEN input ELSE <<Len(hasher)>> \o input

\* An implementation of Hasher by the caller that names itself "sha-256" as
\* Sha256Hasher does, with a digest of its own.
OtherSha256Hasher == SHA_ALG_NAME \o <<Ch.x>>

\* Hasher::alg_name
alg_name(hasher) == IF hasher = OtherSha256Hasher THEN SHA_ALG_NAME ELSE hasher

\* Hasher::encoded_digest: base64url of the digest of the string's bytes.
encoded_digest(hasher, disclosure) == Base64UrlEncode(digest(hasher, disclosure))

(***************************************************************************)
(* Disclosure (src/src/disclosure.rs).                                     *)
(***************************************************************************)
SepCommaSpace == <<Ch.comma, Ch.space>>

\* The text format!() builds: salt and name are written between quotes as
\* they are, the value through serde_json.
DisclosureInput(salt, claim_name, claim_value) ==
  IF IsSome(claim_name)
  THEN <<Ch.lbrack, Ch.quote>> \o salt \o <<Ch.quote>> \o SepCommaSpace
         \o <<Ch.quote>> \o claim_name[1] \o <<Ch.quote>> \o SepCommaSpace
         \o to_string(claim_value) \o <<Ch.rbrack>>
  ELSE <<Ch.lbrack, Ch.quote>> \o salt \o <<Ch.quote>> \o SepCommaSpace
         \o to_string(claim_value) \o <<Ch.rbrack>>

\* Disclosure::new.
DisclosureNew(salt, claim_name, claim_value) ==
  [salt        |-> salt,
   claim_name  |-> claim_name,
   claim_value |-> claim_value,
   disclosure  |-> Base64Encode(DisclosureInput(salt, claim_name, claim_value))]

\* Disclosure::parse.
DisclosureParse(disclosure) ==
  LET OfArray(decoded) ==
        IF Len(decoded) = 2 THEN
          IF ~IsStr(decoded[1]) THEN Err("InvalidDisclosure", <<>>)
          ELSE Ok([salt        |-> decoded[1].str,
                   claim_name  |-> None,
                   claim_value |-> decoded[2],
                   disclosure  |-> disclosure])
        ELSE IF Len(decoded) = 3 THEN
          IF ~IsStr(decoded[1]) \/ ~IsStr(decoded[2]) THEN Err("InvalidDisclosure", <<>>)
          ELSE Ok([salt        |-> decoded[1].str,
                   claim_name  |-> Some(decoded[2].str),
                   claim_value |-> decoded[3],
                   disclosure  |-> disclosure])
        ELSE Err("InvalidDisclosure", <<>>)
      OfJson(parsed) ==
        IF ~parsed.ok \/ ~IsArr(parsed.v) THEN Err("InvalidDisclosure", <<>>)
        ELSE OfArray(parsed.v.arr)
      OfBytes(bytes) ==
        IF ~bytes[1] THEN Err("InvalidDisclosure", <<>>) ELSE OfJson(FromSlice(bytes[2]))
  IN  OfBytes(Base64UrlDecode(disclosure))

(***************************************************************************)
(* Encoder (src/src/encoder.rs).  The operations return the result and the *)
(* object as the call leaves it: [res |-> Ok(..) or Err(..), object |-> m].*)
(***************************************************************************)
\* The map reached from `m` through the object-valued properties `ks`.
RECURSIVE GetMap(_, _)
GetMap(m, ks) == IF Len(ks) = 0 THEN m ELSE GetMap(m[Head(ks)].obj, Tail(ks))

\* `m` with the map reached through `ks` replaced by `nm`.
RECURSIVE SetMap(_, _, _)
SetMap(m, ks, nm) ==
  IF Len(ks) = 0 THEN nm
  ELSE [m EXCEPT ![Head(ks)] = JObj(SetMap(m[Head(ks)].obj, Tail(ks), nm))]

\* The loop of get_target_property_and_its_parent: every segment before the
\* last names an existing object-valued property.
RECURSIVE ParentWalk(_, _, _)
ParentWalk(m, path, i) ==
  IF i >= Len(path) THEN TRUE
  ELSE IF path[i] \notin DOMAIN m THEN FALSE
  ELSE IF IsObj(m[path[i]]) THEN ParentWalk(m[path[i]].obj, path, i + 1)
  ELSE FALSE

\* get_target_property_and_its_parent: the target key and the path of its
\* parent (the model's form of the mutable reference to the parent).
get_target_property_and_its_parent(json, path) ==
  IF ParentWalk(json, path, 1)
  THEN Ok([target_key |-> path[Len(path)], parent |-> SubSeq(path, 1, Len(path) - 1)])
  ELSE Err("InvalidPath", <<>>)

\* An add_digest_to_object that writes a new `_sd` array over an `_sd` that
\* is not an array.
add_digest_to_object_overwriting(object, dig) ==
  IF DIGESTS_KEY \in DOMAIN object /\ IsArr(object[DIGESTS_KEY])
  THEN Ok([object EXCEPT ![DIGESTS_KEY] = JArr(Append(object[DIGESTS_KEY].arr, JStr(dig)))])
  ELSE Ok([k \in DOMAIN object \cup {DIGESTS_KEY} |->
             IF k = DIGESTS_KEY THEN JArr(<<JStr(dig)>>) ELSE object[k]])

\* An add_digest_to_object that puts the digest at the front of `_sd`.
add_digest_to_object_prepending(object, dig) ==
  IF DIGESTS_KEY \in DOMAIN object THEN
    IF IsArr(object[DIGESTS_KEY])
    THEN Ok([object EXCEPT ![DIGESTS_KEY] = JArr(<<JStr(dig)>> \o object[DIGESTS_KEY].arr)])
    ELSE Err("DataTypeMismatch", <<>>)
  ELSE Ok(MapInsert(object, DIGESTS_KEY, JArr(<<JStr(dig)>>)))

\* add_digest_to_object, on the map `object`.
add_digest_to_object(object, dig) ==
  IF DIGESTS_KEY \in DOMAIN object THEN
    IF IsArr(object[DIGESTS_KEY])
    THEN Ok([object EXCEPT ![DIGESTS_KEY] = JArr(Append(object[DIGESTS_KEY].arr, JStr(dig)))])
    ELSE Err("DataTypeMismatch", <<>>)
  ELSE Ok(MapInsert(object, DIGESTS_KEY, JArr(<<JStr(dig)>>)))

\* json!({ARRAY_DIGEST_KEY: hash})
Tripledot(hash) == JObj([k \in {ARRAY_DIGEST_KEY} |-> JStr(hash)])

\* SdObjectEncoder::conceal with the salt already determined.
conceal(object, hasher, path, salt) ==
  LET Digested(parent, removed, disclosure, added) ==
        IF IsOk(added)
        THEN [res |-> Ok(disclosure), object |-> SetMap(object, parent, added.ok)]
        ELSE \* the property is already removed from its parent
             [res |-> added, object |-> SetMap(object, parent, removed)]
      Disclosed(parent, removed, disclosure) ==
        Digested(parent, removed, disclosure,
                 add_digest_to_object(removed, encoded_digest(hasher, disclosure.disclosure)))
      Within(parent, target_key, parent_value) ==
        IF target_key \notin DOMAIN parent_value
        THEN [res |-> Err("InvalidPath", <<>>), object |-> object]
        ELSE Disclosed(parent, MapRemove(parent_value, target_key),
                       DisclosureNew(salt, Some(target_key), parent_value[target_key]))
      Target(found) ==
        IF ~IsOk(found) THEN [res |-> found, object |-> object]
        ELSE Within(found.ok.parent, found.ok.target_key, GetMap(object, found.ok.parent))
  IN  IF Len(path) = 0 THEN [res |-> Err("InvalidPath", <<>>), object |-> object]
      ELSE Target(get_target_property_and_its_parent(object, path))

\* SdObjectEncoder::conceal_array_entry with the salt already determined.
conceal_array_entry(object, hasher, path, element_index, salt) ==
  LET Replaced(parent, target_key, parent_value, array, disclosure) ==
        [res    |-> Ok(disclosure),
         object |-> SetMap(object, parent,
                           [parent_value EXCEPT ![target_key] =
                              JArr([array EXCEPT ![element_index + 1] =
                                      Tripledot(encoded_digest(hasher, disclosure.disclosure))])])]
      Entry(parent, target_key, parent_value, array) ==
        IF element_index < Len(array)
        THEN Replaced(parent, target_key, parent_value, array,
                      DisclosureNew(salt, None, array[element_index + 1]))
        ELSE [res |-> Err("IndexOutofBounds", element_index), object |-> object]
      Within(parent, target_key, parent_value) ==
        IF target_key \notin DOMAIN parent_value \/ ~IsArr(parent_value[target_key])
        THEN [res |-> Err("InvalidPath", <<>>), object |-> object]
        ELSE Entry(parent, target_key, parent_value, parent_value[target_key].arr)
      Target(found) ==
        IF ~IsOk(found) THEN [res |-> found, object |-> object]
        ELSE Within(found.ok.parent, found.ok.target_key, GetMap(object, found.ok.parent))
  IN  IF Len(path) = 0 THEN [res |-> Err("InvalidPath", <<>>), object |-> object]
      ELSE Target(get_target_property_and_its_parent(object, path))

\* random_digest: the digest of a disclosure of a random string.  It is
\* called with array_entry = true everywhere, so the disclosure has no name.
random_digest(hasher, salt, decoy_value) ==
  encoded_digest(hasher, DisclosureNew(salt, None, JStr(decoy_value)).disclosure)

\* SdObjectEncoder::add_decoy, given the random digest it draws.
add_decoy(object, path, hash) ==
  LET AtRoot(added) ==
        IF IsOk(added) THEN [res |-> Ok(<<>>), object |-> added.ok]
        ELSE [res |-> added, object |-> object]
      InObject(added) ==
        IF IsOk(added) THEN [res |-> Ok(<<>>), object |-> SetMap(object, path, added.ok)]
        ELSE [res |-> added, object |-> object]
      Onto(parent, target_key, parent_value, value) ==
        IF IsObj(value) THEN InObject(add_digest_to_object(value.obj, hash))
        ELSE IF IsArr(value) THEN
          [res    |-> Ok(<<>>),
           object |-> SetMap(object, parent,
                             [parent_value EXCEPT
                                ![target_key] = JArr(Append(value.arr, Tripledot(hash)))])]
        ELSE [res |-> Err("InvalidPath", <<>>), object |-> object]
      Within(parent, target_key, parent_value) ==
        IF target_key \notin DOMAIN parent_value
        THEN [res |-> Err("InvalidPath", <<>>), object |-> object]
        ELSE Onto(parent, target_key, parent_value, parent_value[target_key])
      Target(found) ==
        IF ~IsOk(found) THEN [res |-> found, object |-> object]
        ELSE Within(found.ok.parent, found.ok.target_key, GetMap(object, found.ok.parent))
  IN  IF Len(path) = 0 THEN AtRoot(add_digest_to_object(object, hash))
      ELSE Target(get_target_property_and_its_parent(object, path))

\* SdObjectEncoder::add_sd_alg_property.
add_sd_alg_property(object, hasher) == MapInsert(object, SD_ALG, JStr(hasher))

(***************************************************************************)
(* Decoder (src/src/decoder.rs).  The walk threads processed_digests (pd)  *)
(* and, as a history of the walk, the digests whose disclosed value was    *)
(* put into the output (subs), in the order of the substitutions.          *)
(* A step of the walk returns [e |-> None or Some(error), out, pd, subs].  *)
(***************************************************************************)
Walked(out, pd, subs) == [e |-> None, out |-> out, pd |-> pd, subs |-> subs]
Failed(error, pd, subs) == [e |-> Some(error), out |-> <<>>, pd |-> pd, subs |-> subs]

Contains(seq, v) == \E i \in 1..Len(seq) : seq[i] = v

\* A decoder that lets a disclosed value take the place of a property in the
\* clear.
contains_key_overwriting(output, key) == FALSE

\* output.contains_key(&claim_name)
contains_key(output, key) == key \in DOMAIN output

\* What decode_object keeps of a decoded nested object or array: the decoded
\* value is written over the copied one only when it is not empty.
InsertDecodedUnlessEmpty(output, key, decoded, isEmpty) ==
  IF ~isEmpty THEN MapInsert(output, key, decoded) ELSE output

RECURSIVE decode_object(_, _, _, _)
RECURSIVE decode_array(_, _, _, _)
RECURSIVE ObjectLoop(_, _, _, _, _, _, _)
RECURSIVE SdLoop(_, _, _, _, _, _)
RECURSIVE ArrayLoop(_, _, _, _, _, _)

\* The recursive decoding of a disclosed value (the `match` on claim_value).
RecursivelyDecoded(claim_value, disclosures, pd, subs) ==
  LET OfArray(r) == IF IsSome(r.e) THEN r ELSE Walked(JArr(r.out), r.pd, r.subs)
      OfObject(r) == IF IsSome(r.e) THEN r ELSE Walked(JObj(r.out), r.pd, r.subs)
  IN  IF IsArr(claim_value)
      THEN OfArray(decode_array(claim_value.arr, disclosures, pd, subs))
      ELSE IF IsObj(claim_value)
      THEN OfObject(decode_object(claim_value.obj, disclosures, pd, subs))
      ELSE Walked(claim_value, pd, subs)

\* The loop over the `_sd` array of an object, from its j-th digest.
SdLoop(sd_array, j, output, disclosures, pd, subs) ==
  LET Inserted(digest_str, claim_name, r) ==
        IF IsSome(r.e) THEN r
        ELSE SdLoop(sd_array, j + 1, MapInsert(output, claim_name, r.out),
                    disclosures, r.pd, Append(r.subs, digest_str))
      Available(digest_str, disclosure) ==
        IF ~IsSome(disclosure.claim_name)
        THEN Failed(Err("DataTypeMismatch", <<>>), pd, subs)
        ELSE IF contains_key(output, disclosure.claim_name[1])
        THEN Failed(Err("ClaimCollisionError", disclosure.claim_name[1]), pd, subs)
        ELSE Inserted(digest_str, disclosure.claim_name[1],
                      RecursivelyDecoded(disclosure.claim_value, disclosures,
                                         Append(pd, digest_str), subs))
      Digest(digest_str) ==
        IF Contains(pd, digest_str)
        THEN Failed(Err("DuplicateDigestError", digest_str), pd, subs)
        ELSE IF digest_str \in DOMAIN disclosures
        THEN Available(digest_str, disclosures[digest_str])
        ELSE SdLoop(sd_array, j + 1, output, disclosures, pd, subs)
  IN  IF j > Len(sd_array) THEN Walked(output, pd, subs)
      ELSE IF ~IsStr(sd_array[j]) THEN Failed(Err("DataTypeMismatch", <<>>), pd, subs)
      ELSE Digest(sd_array[j].str)

\* The loop of decode_object over the properties of `object`, from the i-th
\* key in iteration order.
ObjectLoop(object, ks, i, output, disclosures, pd, subs) ==
  LET AfterSd(r) ==
        IF IsSome(r.e) THEN r
        ELSE ObjectLoop(object, ks, i + 1, MapRemove(r.out, DIGESTS_KEY),
                        disclosures, r.pd, r.subs)
      AfterObject(key, r) ==
        IF IsSome(r.e) THEN r
        ELSE ObjectLoop(object, ks, i + 1,
                        InsertDecodedUnlessEmpty(output, key, JObj(r.out), r.out = EmptyMap),
                        disclosures, r.pd, r.subs)
      AfterArray(key, r) ==
        IF IsSome(r.e) THEN r
        ELSE ObjectLoop(object, ks, i + 1,
                        InsertDecodedUnlessEmpty(output, key, JArr(r.out), r.out = <<>>),
                        disclosures, r.pd, r.subs)
      Entry(key, value) ==
        IF key = DIGESTS_KEY THEN
          IF ~IsArr(value) THEN Failed(Err("DataTypeMismatch", <<>>), pd, subs)
          ELSE AfterSd(SdLoop(value.arr, 1, output, disclosures, pd, subs))
        ELSE IF IsObj(value)
        THEN AfterObject(key, decode_object(value.obj, disclosures, pd, subs))
        ELSE IF IsArr(value)
        THEN AfterArray(key, decode_array(value.arr, disclosures, pd, subs))
        ELSE ObjectLoop(object, ks, i + 1, output, disclosures, pd, subs)
  IN  IF i > Len(ks) THEN Walked(output, pd, subs)
      ELSE Entry(ks[i], object[ks[i]])

decode_object(object, disclosures, pd, subs) ==
  ObjectLoop(object, Keys(object), 1, object, disclosures, pd, subs)

\* The loop of decode_array from the i-th element.  Of an element that is an
\* object only the first key in iteration order decides: `...` as first key
\* makes it a digest entry, any other first key a plain object (the inner
\* loop breaks); an object without keys runs the inner loop zero times.
ArrayLoop(array, i, output, disclosures, pd, subs) ==
  LET Pushed(digest_in_array, r) ==
        IF IsSome(r.e) THEN r
        ELSE ArrayLoop(array, i + 1, Append(output, r.out),
                       disclosures, r.pd, Append(r.subs, digest_in_array))
      Available(digest_in_array, disclosure) ==
        IF IsSome(disclosure.claim_name)
        THEN Failed(Err("InvalidDisclosure", <<>>), pd, subs)
        ELSE Pushed(digest_in_array,
                    RecursivelyDecoded(disclosure.claim_value, disclosures,
                                       Append(pd, digest_in_array), subs))
      Digest(digest_in_array) ==
        IF Contains(pd, digest_in_array)
        THEN Failed(Err("DuplicateDigestError", digest_in_array), pd, subs)
        ELSE IF digest_in_array \in DOMAIN disclosures
        THEN Available(digest_in_array, disclosures[digest_in_array])
        ELSE ArrayLoop(array, i + 1, output, disclosures, pd, subs)
      AfterObject(r) ==
        IF IsSome(r.e) THEN r
        ELSE ArrayLoop(array, i + 1, Append(output, JObj(r.out)), disclosures, r.pd, r.subs)
      AfterArray(r) ==
        IF IsSome(r.e) THEN r
        ELSE ArrayLoop(array, i + 1, Append(output, JArr(r.out)), disclosures, r.pd, r.subs)
      Element(value) ==
        IF IsObj(value) THEN
          IF value.obj = EmptyMap
          THEN ArrayLoop(array, i + 1, output, disclosures, pd, subs)
          ELSE IF Keys(value.obj)[1] = ARRAY_DIGEST_KEY THEN
            IF Cardinality(DOMAIN value.obj) # 1
            THEN Failed(Err("InvalidArrayDisclosureObject", <<>>), pd, subs)
            ELSE IF ~IsStr(value.obj[ARRAY_DIGEST_KEY])
            THEN Failed(Err("DataTypeMismatch", <<>>), pd, subs)
            ELSE Digest(value.obj[ARRAY_DIGEST_KEY].str)
          ELSE AfterObject(decode_object(value.obj, disclosures, pd, subs))
        ELSE IF IsArr(value)
        THEN AfterArray(decode_array(value.arr, disclosures, pd, subs))
        ELSE ArrayLoop(array, i + 1, Append(output, value), disclosures, pd, subs)
  IN  IF i > Len(array) THEN Walked(output, pd, subs)
      ELSE Element(array[i])

decode_array(array, disclosures, pd, subs) ==
  ArrayLoop(array, 1, <<>>, disclosures, pd, subs)

\* SdObjectDecoder::new: no hasher is registered.
SdObjectDecoderNew == EmptyMap

\* SdObjectDecoder::add_hasher: BTreeMap::insert under the hasher's alg_name,
\* in place of a hasher registered under that name.
add_hasher(registered, hasher) ==
  [alg \in DOMAIN registered \cup {alg_name(hasher)} |->
     IF alg = alg_name(hasher) THEN hasher ELSE registered[alg]]

\* SdObjectDecoder::remove_hasher
remove_hasher(registered, hash_alg) ==
  [alg \in DOMAIN registered \ {hash_alg} |-> registered[alg]]

\* SdObjectDecoder::new_with_sha256
new_with_sha256 == add_hasher(SdObjectDecoderNew, SHA_ALG_NAME)

\* A determine_hasher that takes the hasher registered under "sha-256"
\* when none is registered under the `_sd_alg` of the object.
determine_hasher_defaulting(registered, object) ==
  LET Get(alg) ==
        IF alg \in DOMAIN registered THEN Ok(registered[alg])
        ELSE IF SHA_ALG_NAME \in DOMAIN registered THEN Ok(registered[SHA_ALG_NAME])
        ELSE Err("MissingHasher", alg)
  IN  IF SD_ALG \in DOMAIN object THEN
        IF ~IsStr(object[SD_ALG]) THEN Err("DataTypeMismatch", <<>>)
        ELSE Get(object[SD_ALG].str)
      ELSE Get(SHA_ALG_NAME)

\* SdObjectDecoder::determine_hasher: `registered` is the map of the decoder,
\* from algorithm name to hasher.
determine_hasher(registered, object) ==
  LET Get(alg) ==
        IF alg \in DOMAIN registered THEN Ok(registered[alg])
        ELSE Err("MissingHasher", alg)
  IN  IF SD_ALG \in DOMAIN object THEN
        IF ~IsStr(object[SD_ALG]) THEN Err("DataTypeMismatch", <<>>)
        ELSE Get(object[SD_ALG].str)
      ELSE Get(SHA_ALG_NAME)

\* The first disclosure string that does not parse, 0 when all parse.
FirstUnparsed(disclosures) ==
  LET First(bad) == IF bad = {} THEN 0 ELSE CHOOSE i \in bad : \A j \in bad : i <= j
  IN  First({i \in 1..Len(disclosures) : ~IsOk(DisclosureParse(disclosures[i]))})

\* The map (disclosure digest) -> (disclosure) decode builds.
DisclosuresMap(hasher, disclosures) ==
  LET Digests(digests) ==
        [dg \in {digests[i] : i \in 1..Len(digests)} |->
           DisclosureParse(disclosures[CHOOSE i \in 1..Len(digests) : digests[i] = dg]).ok]
  IN  Digests([i \in 1..Len(disclosures) |-> encoded_digest(hasher, disclosures[i])])

\* The check of decode after the walk.
\* A decoder that does not compare the number of processed digests with the
\* number of supplied disclosures.
UnusedCheck_skipped(processed, supplied) == None

\* A decoder that reports the number of supplied disclosures.
UnusedCheck_counting_all(processed, supplied) ==
  IF processed # supplied THEN Some(Err("UnusedDisclosures", supplied)) ELSE None

saturating_sub(a, b) == IF a >= b THEN a - b ELSE 0

UnusedCheck(processed, supplied) ==
  IF processed # supplied
  THEN Some(Err("UnusedDisclosures", saturating_sub(supplied, processed)))
  ELSE None

\* SdObjectDecoder::decode: [res |-> Ok(object) or Err(..), pd, subs].
decode(registered, object, disclosures) ==
  LET Checked(r, unused) ==
        IF IsSome(r.e) THEN [res |-> r.e[1], pd |-> r.pd, subs |-> r.subs]
        ELSE IF IsSome(unused) THEN [res |-> unused[1], pd |-> r.pd, subs |-> r.subs]
        ELSE [res |-> Ok(MapRemove(r.out, SD_ALG)), pd |-> r.pd, subs |-> r.subs]
      Decoded(r) == Checked(r, UnusedCheck(Len(r.pd), Len(disclosures)))
      Parsed(hasher, unparsed) ==
        IF unparsed # 0
        THEN [res |-> DisclosureParse(disclosures[unparsed]), pd |-> <<>>, subs |-> <<>>]
        ELSE Decoded(decode_object(object, DisclosuresMap(hasher, disclosures), <<>>, <<>>))
      With(hasher) ==
        IF ~IsOk(hasher) THEN [res |-> hasher, pd |-> <<>>, subs |-> <<>>]
        ELSE Parsed(hasher.ok, FirstUnparsed(disclosures))
  IN  With(determine_hasher(registered, object))

(***************************************************************************)
(* Jwt (src/src/jwt.rs), the typed claims and SdJwt (src/src/sd_jwt.rs,    *)
(* src/src/key_binding_jwt_claims.rs).                                     *)
(***************************************************************************)
KeyCnf     == <<Ch.c, Ch.n, Ch.f>>
KeyIat     == <<105, Ch.a, Ch.t>>                              \* iat
KeyAud     == <<Ch.a, Ch.u, 100>>                              \* aud
KeyNonce   == <<Ch.n, 111, Ch.n, Ch.c, 101>>                   \* nonce
KeySdHash  == <<Ch.s, 100, Ch.under, 104, Ch.a, Ch.s, 104>>    \* sd_hash
KeyTyp     == <<Ch.t, Ch.y, 112>>                              \* typ
KeyAlg     == <<Ch.a, 108, 103>>                               \* alg
AlgNone    == <<Ch.n, 111, Ch.n, 101>>                         \* none
KB_JWT_HEADER_TYP == <<107, Ch.b, Ch.plus, 106, 119, Ch.t>>    \* kb+jwt

\* s.split(sep): the pieces of s between the separators, which are at the
\* positions `at`.
Split(s, sep) ==
  LET Pieces(at) ==
        [k \in 1..(Len(at) + 1) |->
           SubSeq(s, IF k = 1 THEN 1 ELSE at[k - 1] + 1,
                     IF k = Len(at) + 1 THEN Len(s) ELSE at[k] - 1)]
  IN  Pieces(SelectSeq([i \in 1..Len(s) |-> i], LAMBDA i : s[i] = sep))

\* m without the keys ks.
MapWithout(m, ks) == [k \in DOMAIN m \ ks |-> m[k]]

\* The serialization of a struct with flattened properties: the members of
\* `fields` in their order, then the properties in the order of their keys.
SerializeMembers(fields, properties) ==
  LET ks == Keys(properties)
      ms == [i \in 1..Len(fields) |->
               Quoted(fields[i][1]) \o <<Ch.colon>> \o to_string(fields[i][2])]
            \o [i \in 1..Len(ks) |->
               Quoted(ks[i]) \o <<Ch.colon>> \o to_string(properties[ks[i]])]
  IN  <<Ch.lbrace>> \o Join(ms, <<Ch.comma>>) \o <<Ch.rbrace>>

AllStrings(arr) == \A i \in 1..Len(arr) : IsStr(arr[i])

\* Deserialize for SdJwtClaims, from a JSON value.
SdJwtClaimsFrom(v) ==
  IF ~IsObj(v) THEN Err("DeserializationError", <<>>)
  ELSE
    LET m == v.obj
    IN  IF DIGESTS_KEY \in DOMAIN m /\ ~(IsArr(m[DIGESTS_KEY]) /\ AllStrings(m[DIGESTS_KEY].arr))
        THEN Err("DeserializationError", <<>>)
        ELSE IF SD_ALG \in DOMAIN m /\ ~(IsStr(m[SD_ALG]) \/ IsNull(m[SD_ALG]))
        THEN Err("DeserializationError", <<>>)
        ELSE Ok([_sd |-> IF DIGESTS_KEY \in DOMAIN m
                         THEN [i \in 1..Len(m[DIGESTS_KEY].arr) |-> m[DIGESTS_KEY].arr[i].str]
                         ELSE <<>>,
                 _sd_alg |-> IF SD_ALG \in DOMAIN m /\ IsStr(m[SD_ALG])
                             THEN Some(m[SD_ALG].str) ELSE None,
                 cnf |-> IF KeyCnf \in DOMAIN m /\ ~IsNull(m[KeyCnf])
                         THEN Some(m[KeyCnf]) ELSE None,
                 properties |-> MapWithout(m, {DIGESTS_KEY, SD_ALG, KeyCnf})])

\* Serialize for SdJwtClaims: `_sd` unless empty, `_sd_alg` and `cnf` unless
\* None, then the properties.
SdJwtClaimsToVec(claims) ==
  SerializeMembers(
    (IF Len(claims._sd) = 0 THEN <<>>
     ELSE <<<<DIGESTS_KEY, JArr([i \in 1..Len(claims._sd) |-> JStr(claims._sd[i])])>>>>)
    \o (IF IsSome(claims._sd_alg) THEN <<<<SD_ALG, JStr(claims._sd_alg[1])>>>> ELSE <<>>)
    \o (IF IsSome(claims.cnf) THEN <<<<KeyCnf, claims.cnf[1]>>>> ELSE <<>>),
    claims.properties)

\* Deserialize for KeyBindingJwtClaims, from a JSON value.
KeyBindingJwtClaimsFrom(v) ==
  IF ~IsObj(v) THEN Err("DeserializationError", <<>>)
  ELSE
    LET m == v.obj
    IN  IF /\ {KeyIat, KeyAud, KeyNonce, KeySdHash} \subseteq DOMAIN m
           /\ IsNum(m[KeyIat]) /\ IsStr(m[KeyAud])
           /\ IsStr(m[KeyNonce]) /\ IsStr(m[KeySdHash])
        THEN Ok([iat |-> m[KeyIat].num, aud |-> m[KeyAud].str,
                 nonce |-> m[KeyNonce].str, sd_hash |-> m[KeySdHash].str,
                 properties |-> MapWithout(m, {KeyIat, KeyAud, KeyNonce, KeySdHash})])
        ELSE Err("DeserializationError", <<>>)

\* Serialize for KeyBindingJwtClaims.
KeyBindingJwtClaimsToVec(claims) ==
  SerializeMembers(<<<<KeyIat, JNum(claims.iat)>>, <<KeyAud, JStr(claims.aud)>>,
                     <<KeyNonce, JStr(claims.nonce)>>, <<KeySdHash, JStr(claims.sd_hash)>>>>,
                   claims.properties)

\* T's Deserialize, from a JSON value.
Deserialize(T, v) ==
  IF T = "SdJwtClaims" THEN SdJwtClaimsFrom(v) ELSE KeyBindingJwtClaimsFrom(v)

\* T's Serialize, to bytes.
Serialize(T, claims) ==
  IF T = "SdJwtClaims" THEN SdJwtClaimsToVec(claims) ELSE KeyBindingJwtClaimsToVec(claims)

\* impl FromStr for Jwt<T>
JwtFromStr(s, T) ==
  LET Signed(segments, header, claims) ==
        IF ~IsOk(claims) THEN claims
        ELSE IF Len(segments) < 3 THEN Err("DeserializationError", <<>>)
        ELSE IF Len(segments) > 3 THEN Err("DeserializationError", <<>>)
        ELSE Ok([header    |-> header.v.obj,
                 claims    |-> claims.ok,
                 signature |-> segments[3]])
      ClaimsJson(segments, header, claims_value) ==
        IF ~claims_value.ok THEN Err("DeserializationError", <<>>)
        ELSE Signed(segments, header, Deserialize(T, claims_value.v))
      ClaimsBytes(segments, header, claims_bytes) ==
        IF ~claims_bytes[1] THEN Err("DeserializationError", <<>>)
        ELSE ClaimsJson(segments, header, FromSlice(claims_bytes[2]))
      HeaderJson(segments, header) ==
        IF ~header.ok \/ ~IsObj(header.v) THEN Err("DeserializationError", <<>>)
        ELSE IF Len(segments) < 2 THEN Err("DeserializationError", <<>>)
        ELSE ClaimsBytes(segments, header, Base64UrlDecode(segments[2]))
      HeaderBytes(segments, header_bytes) ==
        IF ~header_bytes[1] THEN Err("DeserializationError", <<>>)
        ELSE HeaderJson(segments, FromSlice(header_bytes[2]))
      Segments(segments) == HeaderBytes(segments, Base64UrlDecode(segments[1]))
  IN  Segments(Split(s, Ch.dot))

\* impl Display for Jwt<T>
JwtDisplay(jwt, T) ==
  Base64UrlEncode(to_string(JObj(jwt.header))) \o <<Ch.dot>>
    \o Base64UrlEncode(Serialize(T, jwt.claims)) \o <<Ch.dot>> \o jwt.signature

\* A FromStr for KeyBindingJwt that accepts any alg header, and none.
KeyBindingJwtFromStr_any_alg(s) ==
  LET Valid(jwt) ==
        IF ~IsOk(jwt) THEN jwt
        ELSE IF ~(KeyTyp \in DOMAIN jwt.ok.header
                  /\ jwt.ok.header[KeyTyp] = JStr(KB_JWT_HEADER_TYP))
        THEN Err("DeserializationError", <<>>)
        ELSE jwt
  IN  Valid(JwtFromStr(s, "KeyBindingJwtClaims"))

\* impl FromStr for KeyBindingJwt.
KeyBindingJwtFromStr(s) ==
  LET Valid(jwt) ==
        IF ~IsOk(jwt) THEN jwt
        ELSE IF ~(KeyTyp \in DOMAIN jwt.ok.header
                  /\ jwt.ok.header[KeyTyp] = JStr(KB_JWT_HEADER_TYP))
        THEN Err("DeserializationError", <<>>)
        ELSE IF ~(KeyAlg \in DOMAIN jwt.ok.header /\ jwt.ok.header[KeyAlg] # JStr(AlgNone))
        THEN Err("DeserializationError", <<>>)
        ELSE jwt
  IN  Valid(JwtFromStr(s, "KeyBindingJwtClaims"))

\* The first of the strings that Disclosure::parse refuses, 0 when none.
FirstRefused(strings) ==
  LET First(bad) == IF bad = {} THEN 0 ELSE CHOOSE i \in bad : \A j \in bad : i <= j
  IN  First({i \in 1..Len(strings) : ~IsOk(DisclosureParse(strings[i]))})

\* An SdJwt::parse that leaves out the segments that Disclosure::parse
\* refuses.
SdJwtParse_skipping_refused(sd_jwt) ==
  LET Bound(jwt, disclosures, key_binding_jwt) ==
        IF IsSome(key_binding_jwt) /\ ~IsOk(key_binding_jwt[1]) THEN key_binding_jwt[1]
        ELSE Ok([jwt |-> jwt.ok,
                 disclosures |-> disclosures,
                 key_binding_jwt |-> IF IsSome(key_binding_jwt)
                                     THEN Some(key_binding_jwt[1].ok) ELSE None])
      Disclosed(jwt, accepted, last) ==
        Bound(jwt, [i \in 1..Len(accepted) |-> DisclosureParse(accepted[i]).ok],
              IF Len(last) # 0 THEN Some(KeyBindingJwtFromStr(last)) ELSE None)
      Issuer(jwt, middle, last) ==
        IF ~IsOk(jwt) THEN jwt
        ELSE Disclosed(jwt, SelectSeq(middle, LAMBDA d : IsOk(DisclosureParse(d))), last)
      Segments(sd_segments, num_of_segments) ==
        IF num_of_segments < 2 THEN Err("DeserializationError", <<>>)
        ELSE Issuer(JwtFromStr(sd_segments[1], "SdJwtClaims"),
                    SubSeq(sd_segments, 2, num_of_segments - 1),
                    sd_segments[num_of_segments])
      Pieces(sd_segments) == Segments(sd_segments, Len(sd_segments))
  IN  Pieces(Split(sd_jwt, Ch.tilde))

\* SdJwt::parse.
SdJwtParse(sd_jwt) ==
  LET Bound(jwt, disclosures, key_binding_jwt) ==
        IF IsSome(key_binding_jwt) /\ ~IsOk(key_binding_jwt[1]) THEN key_binding_jwt[1]
        ELSE Ok([jwt |-> jwt.ok,
                 disclosures |-> disclosures,
                 key_binding_jwt |-> IF IsSome(key_binding_jwt)
                                     THEN Some(key_binding_jwt[1].ok) ELSE None])
      Disclosed(jwt, middle, last, refused) ==
        IF refused # 0 THEN DisclosureParse(middle[refused])
        ELSE Bound(jwt, [i \in 1..Len(middle) |-> DisclosureParse(middle[i]).ok],
                   IF Len(last) # 0 THEN Some(KeyBindingJwtFromStr(last)) ELSE None)
      Issuer(jwt, middle, last) ==
        IF ~IsOk(jwt) THEN jwt ELSE Disclosed(jwt, middle, last, FirstRefused(middle))
      Segments(sd_segments, num_of_segments) ==
        IF num_of_segments < 2 THEN Err("DeserializationError", <<>>)
        ELSE Issuer(JwtFromStr(sd_segments[1], "SdJwtClaims"),
                    SubSeq(sd_segments, 2, num_of_segments - 1),
                    sd_segments[num_of_segments])
      Pieces(sd_segments) == Segments(sd_segments, Len(sd_segments))
  IN  Pieces(Split(sd_jwt, Ch.tilde))

\* SdJwt::presentation.
presentation(sd_jwt) ==
  LET Joined(jwt, disclosures, key_bindings) ==
        IF Len(disclosures) = 0
        THEN jwt \o <<Ch.tilde>> \o key_bindings
        ELSE jwt \o <<Ch.tilde>> \o disclosures \o <<Ch.tilde>> \o key_bindings
  IN  Joined(JwtDisplay(sd_jwt.jwt, "SdJwtClaims"),
             Join([i \in 1..Len(sd_jwt.disclosures) |-> sd_jwt.disclosures[i].disclosure],
                  <<Ch.tilde>>),
             IF IsSome(sd_jwt.key_binding_jwt)
             THEN JwtDisplay(sd_jwt.key_binding_jwt[1], "KeyBindingJwtClaims")
             ELSE <<>>)

(***************************************************************************)
(* SdJwtPresentationBuilder (src/src/sd_jwt.rs).  An IndexMap is a         *)
(* sequence of entries [key, value] with distinct keys; indices count      *)
(* from 0 as in the code.                                                  *)
(***************************************************************************)
\* IndexMap::get_index_of: Some(index) or None.
get_index_of(map, key) ==
  LET Found(at) == IF at = {} THEN None ELSE Some((CHOOSE i \in at : TRUE) - 1)
  IN  Found({i \in 1..Len(map) : map[i].key = key})

\* IndexMap::insert: the value of a key already there is replaced in place.
IndexMapInsert(map, key, value) ==
  LET Put(idx) ==
        IF IsSome(idx) THEN [map EXCEPT ![idx[1] + 1] = [key |-> key, value |-> value]]
        ELSE Append(map, [key |-> key, value |-> value])
  IN  Put(get_index_of(map, key))

\* Iterator::collect into an IndexMap, of the disclosures keyed by digest.
RECURSIVE CollectByDigest(_, _, _)
CollectByDigest(hasher, disclosures, map) ==
  IF Len(disclosures) = 0 THEN map
  ELSE CollectByDigest(hasher, Tail(disclosures),
                       IndexMapInsert(map, encoded_digest(hasher, Head(disclosures).disclosure),
                                      Head(disclosures)))

\* A new that requires sha-256 whatever `_sd_alg` the SD-JWT names.
PresentationBuilderNew_requiring_sha256(sd_jwt, hasher) ==
  LET Built(claims) ==
        [sd_jwt |-> [sd_jwt EXCEPT !.disclosures = <<>>,
                                   !.jwt.claims._sd = <<>>,
                                   !.jwt.claims.properties = EmptyMap],
         disclosures |-> CollectByDigest(hasher, sd_jwt.disclosures, <<>>),
         disclosures_to_omit |-> {},
         object |-> JObj(MapInsert(claims.properties, DIGESTS_KEY,
                                   JArr([j \in 1..Len(claims._sd) |-> JStr(claims._sd[j])])))]
  IN  IF SHA_ALG_NAME # hasher THEN Err("InvalidHasher", <<>>)
      ELSE Ok(Built(sd_jwt.jwt.claims))

\* SdJwtPresentationBuilder::new, `hasher` being the algorithm name of the
\* hasher given.
PresentationBuilderNew(sd_jwt, hasher) ==
  LET Built(claims) ==
        [sd_jwt |-> [sd_jwt EXCEPT !.disclosures = <<>>,
                                   !.jwt.claims._sd = <<>>,
                                   !.jwt.claims.properties = EmptyMap],
         disclosures |-> CollectByDigest(hasher, sd_jwt.disclosures, <<>>),
         disclosures_to_omit |-> {},
         object |-> JObj(MapInsert(claims.properties, DIGESTS_KEY,
                                   JArr([j \in 1..Len(claims._sd) |-> JStr(claims._sd[j])])))]
      Required(claims, required_hasher) ==
        IF required_hasher # hasher THEN Err("InvalidHasher", <<>>) ELSE Ok(Built(claims))
      Of(claims) ==
        Required(claims, IF IsSome(claims._sd_alg) THEN claims._sd_alg[1] ELSE SHA_ALG_NAME)
  IN  Of(sd_jwt.jwt.claims)

\* str::parse::<usize>: decimal digits, after an optional plus sign.
ParseUsize(s) ==
  LET Number(digits) ==
        IF Len(digits) > 0 /\ \A j \in 1..Len(digits) : IsDigit(digits[j])
        THEN Some(ParseDigits(digits, 1, 0).v.num)
        ELSE None
  IN  Number(IF Len(s) > 0 /\ s[1] = Ch.plus THEN Tail(s) ELSE s)

\* str::trim_start_matches(ch)
RECURSIVE TrimStartMatches(_, _)
TrimStartMatches(s, ch) ==
  IF Len(s) > 0 /\ s[1] = ch THEN TrimStartMatches(Tail(s), ch) ELSE s

\* find_disclosure: the index of the first digest of object's `_sd` whose
\* disclosure is named `key`.
find_disclosure(object, key, disclosures) ==
  LET Named(idx) == IsSome(idx) /\ disclosures[idx[1] + 1].value.claim_name = Some(key)
      First(sd, hits) ==
        IF hits = {} THEN None
        ELSE get_index_of(disclosures, sd[CHOOSE j \in hits : \A k \in hits : j <= k].str)
      Among(sd) ==
        First(sd, {j \in 1..Len(sd) : Named(get_index_of(disclosures, sd[j].str))})
  IN  Among(IF DIGESTS_KEY \in DOMAIN object /\ IsArr(object[DIGESTS_KEY])
            THEN SelectSeq(object[DIGESTS_KEY].arr, IsStr) ELSE <<>>)

\* One step through a disclosure: TraversalResult::new_from_disclosure, or
\* None when there is no such disclosure.
ThroughDisclosure(idx, disclosures) ==
  IF IsSome(idx)
  THEN Some([value |-> disclosures[idx[1] + 1].value.claim_value, disclosure |-> idx])
  ELSE None

\* traverse_disclosable_object_step: None, or Some([value, disclosure]).
traverse_disclosable_object_step(value, path_fragment, disclosures) ==
  LET InArray(element) ==
        IF /\ IsObj(element) /\ ARRAY_DIGEST_KEY \in DOMAIN element.obj
           /\ IsStr(element.obj[ARRAY_DIGEST_KEY])
        THEN ThroughDisclosure(get_index_of(disclosures, element.obj[ARRAY_DIGEST_KEY].str),
                               disclosures)
        ELSE Some([value |-> element, disclosure |-> None])
      AtIndex(arr_idx) ==
        IF ~IsSome(arr_idx) THEN None
        ELSE IF arr_idx[1] >= Len(value.arr) THEN None
        ELSE InArray(value.arr[arr_idx[1] + 1])
  IN  IF IsObj(value) /\ path_fragment \in DOMAIN value.obj
      THEN Some([value |-> value.obj[path_fragment], disclosure |-> None])
      ELSE IF IsObj(value)
      THEN ThroughDisclosure(find_disclosure(value.obj, path_fragment, disclosures), disclosures)
      ELSE IF IsArr(value) THEN AtIndex(ParseUsize(path_fragment))
      ELSE None

\* traverse_disclosable_object: None, or Some([value, visited_disclosures]).
RECURSIVE traverse_disclosable_object(_, _, _, _)
traverse_disclosable_object(value, path, disclosures, visited_disclosures) ==
  LET Stepped(step) ==
        IF ~IsSome(step) THEN None
        ELSE traverse_disclosable_object(
               step[1].value, Tail(path), disclosures,
               IF IsSome(step[1].disclosure)
               THEN Append(visited_disclosures, step[1].disclosure[1])
               ELSE visited_disclosures)
  IN  IF Len(path) = 0 THEN Some([value |-> value, visited_disclosures |-> visited_disclosures])
      ELSE Stepped(traverse_disclosable_object_step(value, Head(path), disclosures))

\* The indices of the disclosures of those of `digests` that have one.
IndicesOf(digests, disclosures) ==
  LET Known(found) == [j \in 1..Len(found) |-> get_index_of(disclosures, found[j].str)[1]]
  IN  Known(SelectSeq(digests, LAMBDA e : IsStr(e) /\ IsSome(get_index_of(disclosures, e.str))))

\* get_all_sub_disclosures.
RECURSIVE get_all_sub_disclosures(_, _)
get_all_sub_disclosures(value, disclosures) ==
  LET Values(object, ks) ==
        Concat([j \in 1..Len(ks) |-> get_all_sub_disclosures(object[ks[j]], disclosures)])
      OfElement(e) ==
        IF /\ ARRAY_DIGEST_KEY \in DOMAIN e.obj
           /\ IsStr(e.obj[ARRAY_DIGEST_KEY])
           /\ IsSome(get_index_of(disclosures, e.obj[ARRAY_DIGEST_KEY].str))
        THEN <<get_index_of(disclosures, e.obj[ARRAY_DIGEST_KEY].str)[1]>>
        ELSE get_all_sub_disclosures(e, disclosures)
      Elements(objects) == Concat([j \in 1..Len(objects) |-> OfElement(objects[j])])
  IN  IF IsObj(value) THEN
        IndicesOf(IF DIGESTS_KEY \in DOMAIN value.obj /\ IsArr(value.obj[DIGESTS_KEY])
                  THEN value.obj[DIGESTS_KEY].arr ELSE <<>>,
                  disclosures)
          \o Values(value.obj, Keys(value.obj))
      ELSE IF IsArr(value) THEN Elements(SelectSeq(value.arr, IsObj))
      ELSE <<>>

PathSegments(path) == Split(TrimStartMatches(path, Ch.slash), Ch.slash)

\* find_disclosure_and_sub_disclosures_for_value_at_path
find_disclosure_and_sub_disclosures_for_value_at_path(value, path, disclosures) ==
  LET Popped(at, visited_disclosures) ==
        IF Len(visited_disclosures) = 0 THEN Err("InvalidPath", <<>>)
        ELSE Ok(Append(get_all_sub_disclosures(at, disclosures),
                       visited_disclosures[Len(visited_disclosures)]))
      Traversed(found) ==
        IF ~IsSome(found) THEN Err("InvalidPath", <<>>)
        ELSE Popped(found[1].value, found[1].visited_disclosures)
  IN  Traversed(traverse_disclosable_object(value, PathSegments(path), disclosures, <<>>))

\* find_disclosure_and_parent_disclosures_for_value_at_path
find_disclosure_and_parent_disclosures_for_value_at_path(value, path, disclosures) ==
  LET Traversed(found) ==
        IF ~IsSome(found) THEN Err("InvalidPath", <<>>)
        ELSE Ok(found[1].visited_disclosures)
  IN  Traversed(traverse_disclosable_object(value, PathSegments(path), disclosures, <<>>))

\* SdJwtPresentationBuilder::conceal: Ok(builder) or Err.
PresentationConceal(builder, path) ==
  LET Extended(found) ==
        IF ~IsOk(found) THEN found
        ELSE Ok([builder EXCEPT !.disclosures_to_omit =
                                   @ \cup {found.ok[j] : j \in 1..Len(found.ok)}])
  IN  Extended(find_disclosure_and_sub_disclosures_for_value_at_path(
                 builder.object, path, builder.disclosures))

\* SdJwtPresentationBuilder::conceal_all
conceal_all(builder) ==
  [builder EXCEPT !.disclosures_to_omit = @ \cup 0..(Len(builder.disclosures) - 1)]

\* A disclose that unmarks the element at the path and none of its ancestors.
disclose_without_parents(builder, path) ==
  LET Removed(disclosing) ==
        IF ~IsOk(disclosing) THEN disclosing
        ELSE Ok([builder EXCEPT !.disclosures_to_omit =
                                   @ \ {disclosing.ok[j] : j \in {Len(disclosing.ok)} \ {0}}])
  IN  Removed(find_disclosure_and_parent_disclosures_for_value_at_path(
                builder.object, path, builder.disclosures))

\* SdJwtPresentationBuilder::disclose: Ok(builder) or Err.
disclose(builder, path) ==
  LET Removed(disclosing) ==
        IF ~IsOk(disclosing) THEN disclosing
        ELSE Ok([builder EXCEPT !.disclosures_to_omit =
                                   @ \ {disclosing.ok[j] : j \in 1..Len(disclosing.ok)}])
  IN  Removed(find_disclosure_and_parent_disclosures_for_value_at_path(
                builder.object, path, builder.disclosures))

\* A finish that returns the omitted disclosures last marked first.
PresentationFinish_omitted_reversed(builder) ==
  LET Back(keep, omit, obj, sd) ==
        [sd_jwt |-> [builder.sd_jwt EXCEPT
                       !.jwt.claims._sd = [j \in 1..Len(sd) |-> sd[j].str],
                       !.jwt.claims.properties = MapWithout(obj, {DIGESTS_KEY}),
                       !.disclosures =
                          [j \in 1..Len(keep) |-> builder.disclosures[keep[j] + 1].value]],
         omitted_disclosures |->
           [j \in 1..Len(omit) |-> builder.disclosures[omit[Len(omit) + 1 - j] + 1].value]]
      Partitioned(indices, obj) ==
        Back(SelectSeq(indices, LAMBDA idx : idx \notin builder.disclosures_to_omit),
             SelectSeq(indices, LAMBDA idx : idx \in builder.disclosures_to_omit),
             obj,
             IF DIGESTS_KEY \in DOMAIN obj THEN obj[DIGESTS_KEY].arr ELSE <<>>)
  IN  Partitioned([j \in 1..Len(builder.disclosures) |-> j - 1], builder.object.obj)

\* A finish that does not put the digests back into the `_sd` claim.
PresentationFinish_without_sd(builder) ==
  LET Back(keep, omit, obj) ==
        [sd_jwt |-> [builder.sd_jwt EXCEPT
                       !.jwt.claims.properties = MapWithout(obj, {DIGESTS_KEY}),
                       !.disclosures =
                          [j \in 1..Len(keep) |-> builder.disclosures[keep[j] + 1].value]],
         omitted_disclosures |-> [j \in 1..Len(omit) |-> builder.disclosures[omit[j] + 1].value]]
      Partitioned(indices, obj) ==
        Back(SelectSeq(indices, LAMBDA idx : idx \notin builder.disclosures_to_omit),
             SelectSeq(indices, LAMBDA idx : idx \in builder.disclosures_to_omit),
             obj)
  IN  Partitioned([j \in 1..Len(builder.disclosures) |-> j - 1], builder.object.obj)

\* SdJwtPresentationBuilder::finish: the SdJwt and the omitted disclosures.
PresentationFinish(builder) ==
  LET Back(keep, omit, obj, sd) ==
        [sd_jwt |-> [builder.sd_jwt EXCEPT
                       !.jwt.claims._sd = [j \in 1..Len(sd) |-> sd[j].str],
                       !.jwt.claims.properties = MapWithout(obj, {DIGESTS_KEY}),
                       !.disclosures =
                          [j \in 1..Len(keep) |-> builder.disclosures[keep[j] + 1].value]],
         omitted_disclosures |-> [j \in 1..Len(omit) |-> builder.disclosures[omit[j] + 1].value]]
      Partitioned(indices, obj) ==
        Back(SelectSeq(indices, LAMBDA idx : idx \notin builder.disclosures_to_omit),
             SelectSeq(indices, LAMBDA idx : idx \in builder.disclosures_to_omit),
             obj,
             IF DIGESTS_KEY \in DOMAIN obj THEN obj[DIGESTS_KEY].arr ELSE <<>>)
  IN  Partitioned([j \in 1..Len(builder.disclosures) |-> j - 1], builder.object.obj)

\* serde_json::to_value(claims) for SdJwtClaims: `_sd` unless empty,
\* `_sd_alg` and `cnf` unless None, and the flattened properties.
SdJwtClaimsToValue(claims) ==
  LET WithSd(m) ==
        IF Len(claims._sd) = 0 THEN m
        ELSE MapInsert(m, DIGESTS_KEY, JArr([i \in 1..Len(claims._sd) |-> JStr(claims._sd[i])]))
      WithAlg(m) ==
        IF IsSome(claims._sd_alg) THEN MapInsert(m, SD_ALG, JStr(claims._sd_alg[1])) ELSE m
      WithKeyBind(m) ==
        IF IsSome(claims.cnf) THEN MapInsert(m, KeyCnf, claims.cnf[1]) ELSE m
  IN  WithSd(WithAlg(WithKeyBind(claims.properties)))

\* SdJwt::into_disclosed_object: the claims decoded with the disclosures of
\* the SdJwt, their digests taken with the hasher given.
into_disclosed_object(sd_jwt, hasher) ==
  decode(add_hasher(SdObjectDecoderNew, hasher),
         SdJwtClaimsToValue(sd_jwt.jwt.claims),
         [i \in 1..Len(sd_jwt.disclosures) |-> sd_jwt.disclosures[i].disclosure]).res

(***************************************************************************)
(* KeyBindingJwtBuilder (src/src/key_binding_jwt_claims.rs): the claims    *)
(* object the builder holds.                                               *)
(***************************************************************************)
KeyBindingJwtBuilderNew == EmptyMap
from_object(object) == object
iat(claims, value) == MapInsert(claims, KeyIat, JNum(value))
aud(claims, value) == MapInsert(claims, KeyAud, JStr(value))
nonce(claims, value) == MapInsert(claims, KeyNonce, JStr(value))

\* sd_jwt.claims()._sd_alg.as_deref().unwrap_or(SHA_ALG_NAME)
RequiredHasher(sd_jwt) ==
  IF IsSome(sd_jwt.jwt.claims._sd_alg) THEN sd_jwt.jwt.claims._sd_alg[1] ELSE SHA_ALG_NAME

\* A KB-JWT bound to the issuer's JWT alone, the disclosures left out.
SdJwtDisplay_of_jwt_alone(sd_jwt) == JwtDisplay(sd_jwt.jwt, "SdJwtClaims")

\* impl Display for SdJwt
SdJwtDisplay(sd_jwt) == presentation(sd_jwt)

\* A finish that binds an SD-JWT again that already has a KB-JWT.
KeyBindingJwtBuilderFinish_binding_again(claims, sd_jwt, hasher, alg, raw_sig) ==
  LET Signed(parsed_claims) ==
        IF ~IsOk(parsed_claims) THEN Err("DeserializationError", <<>>)
        ELSE IF ~IsOk(raw_sig) THEN Err("JwsSignerFailure", <<>>)
        ELSE Ok([header    |-> (KeyAlg :> JStr(alg)) @@ (KeyTyp :> JStr(KB_JWT_HEADER_TYP)),
                 claims    |-> parsed_claims.ok,
                 signature |-> Base64UrlEncode(raw_sig.ok)])
      Hashed(with_hash) == Signed(KeyBindingJwtClaimsFrom(JObj(with_hash)))
  IN  IF alg = AlgNone THEN Err("DataTypeMismatch", <<>>)
      ELSE IF RequiredHasher(sd_jwt) # hasher THEN Err("MissingHasher", hasher)
      ELSE Hashed(MapInsert(claims, KeySdHash,
                            JStr(encoded_digest(hasher, SdJwtDisplay(sd_jwt)))))

\* A finish that asks the signer before it validates the claims.
KeyBindingJwtBuilderFinishSigning_before_validation(claims, sd_jwt, hasher, alg, raw_sig) ==
  LET header == (KeyAlg :> JStr(alg)) @@ (KeyTyp :> JStr(KB_JWT_HEADER_TYP))
      Refused(error) == [res |-> error, signed |-> <<>>]
      Signed(with_hash, parsed_claims) ==
        [res    |-> IF ~IsOk(raw_sig) THEN Err("JwsSignerFailure", <<>>)
                    ELSE IF ~IsOk(parsed_claims) THEN Err("DeserializationError", <<>>)
                    ELSE Ok([header    |-> header,
                             claims    |-> parsed_claims.ok,
                             signature |-> Base64UrlEncode(raw_sig.ok)]),
         signed |-> <<[header |-> header, payload |-> with_hash]>>]
      Hashed(with_hash) == Signed(with_hash, KeyBindingJwtClaimsFrom(JObj(with_hash)))
  IN  IF alg = AlgNone THEN Refused(Err("DataTypeMismatch", <<>>))
      ELSE IF IsSome(sd_jwt.key_binding_jwt) THEN Refused(Err("DataTypeMismatch", <<>>))
      ELSE IF RequiredHasher(sd_jwt) # hasher THEN Refused(Err("MissingHasher", hasher))
      ELSE Hashed(MapInsert(claims, KeySdHash,
                            JStr(encoded_digest(hasher, SdJwtDisplay(sd_jwt)))))

\* KeyBindingJwtBuilder::finish, the signer returning raw_sig (Ok of the
\* signature's bytes, or an error): what finish returns, Ok(KeyBindingJwt)
\* or Err, and the calls of signer.sign it made, each with the header and
\* the payload given.
KeyBindingJwtBuilderFinishSigning(claims, sd_jwt, hasher, alg, raw_sig) ==
  LET header == (KeyAlg :> JStr(alg)) @@ (KeyTyp :> JStr(KB_JWT_HEADER_TYP))
      Refused(error) == [res |-> error, signed |-> <<>>]
      Signed(with_hash, parsed_claims) ==
        IF ~IsOk(parsed_claims) THEN Refused(Err("DeserializationError", <<>>))
        ELSE [res    |-> IF ~IsOk(raw_sig) THEN Err("JwsSignerFailure", <<>>)
                         ELSE Ok([header    |-> header,
                                  claims    |-> parsed_claims.ok,
                                  signature |-> Base64UrlEncode(raw_sig.ok)]),
              signed |-> <<[header |-> header, payload |-> with_hash]>>]
      Hashed(with_hash) == Signed(with_hash, KeyBindingJwtClaimsFrom(JObj(with_hash)))
  IN  IF alg = AlgNone THEN Refused(Err("DataTypeMismatch", <<>>))
      ELSE IF IsSome(sd_jwt.key_binding_jwt) THEN Refused(Err("DataTypeMismatch", <<>>))
      ELSE IF RequiredHasher(sd_jwt) # hasher THEN Refused(Err("MissingHasher", hasher))
      ELSE Hashed(MapInsert(claims, KeySdHash,
                            JStr(encoded_digest(hasher, SdJwtDisplay(sd_jwt)))))

\* What KeyBindingJwtBuilder::finish returns.
KeyBindingJwtBuilderFinish(claims, sd_jwt, hasher, alg, raw_sig) ==
  KeyBindingJwtBuilderFinishSigning(claims, sd_jwt, hasher, alg, raw_sig).res

\* SdJwt::attach_key_binding_jwt
attach_key_binding_jwt(sd_jwt, kb_jwt) ==
  [sd_jwt EXCEPT !.key_binding_jwt = Some(kb_jwt)]

(***************************************************************************)
(* Randomness.  rand::thread_rng is modelled by a counter of the draws     *)
(* made so far: every draw of bytes differs from every earlier draw.       *)
(***************************************************************************)
RandomBytes(draw) == <<draw + 1>>

\* SdObjectEncoder::gen_rand, given the random bytes drawn.
gen_rand(random_bytes) == Base64UrlEncode(random_bytes)

\* SdObjectEncoder::add_decoys: number_of_decoys calls of add_decoy, each
\* drawing a salt and a value, stopping at the first error.  add_decoy draws
\* before it adds the digest, so a call that fails in add_digest_to_object
\* has drawn.  `added` counts the decoys added.
RECURSIVE add_decoys(_, _, _, _, _, _)
add_decoys(object, hasher, path, number_of_decoys, draw, added) ==
  LET Added(r) ==
        IF IsOk(r.res)
        THEN add_decoys(r.object, hasher, path, number_of_decoys - 1, draw + 2, added + 1)
        ELSE [res    |-> r.res,
              object |-> r.object,
              draw   |-> IF IsErr(r.res, "DataTypeMismatch") THEN draw + 2 ELSE draw,
              added  |-> added]
  IN  IF number_of_decoys = 0
      THEN [res |-> Ok(<<>>), object |-> object, draw |-> draw, added |-> added]
      ELSE Added(add_decoy(object, path,
                           random_digest(hasher, gen_rand(RandomBytes(draw)),
                                         gen_rand(RandomBytes(draw + 1)))))

(***************************************************************************)
(* SdJwtBuilder (src/src/builder.rs): the encoder's object, the            *)
(* disclosures made so far and the draws of the random generator.          *)
(***************************************************************************)
SdJwtBuilderNew(object) ==
  [object |-> object, disclosures |-> <<>>, draws |-> 0, key_bind |-> None]

\* A make_concealable that puts the new disclosure before the earlier ones.
make_concealable_prepending(builder, hasher, path, element) ==
  LET Pushed(r) ==
        IF ~IsOk(r.res) THEN r.res
        ELSE Ok([builder EXCEPT !.object      = r.object,
                                !.disclosures = <<r.res.ok>> \o builder.disclosures,
                                !.draws       = builder.draws + 1])
  IN  IF IsSome(element)
      THEN Pushed(conceal_array_entry(builder.object, hasher, path, element[1],
                                      gen_rand(RandomBytes(builder.draws))))
      ELSE Pushed(conceal(builder.object, hasher, path, gen_rand(RandomBytes(builder.draws))))

\* SdJwtBuilder::make_concealable: Ok(builder) or Err.  The target is a
\* property (element = None) or an element of an array property
\* (element = Some(index)); the salt is random.
make_concealable(builder, hasher, path, element) ==
  LET Pushed(r) ==
        IF ~IsOk(r.res) THEN r.res
        ELSE Ok([builder EXCEPT !.object      = r.object,
                                !.disclosures = Append(builder.disclosures, r.res.ok),
                                !.draws       = builder.draws + 1])
  IN  IF IsSome(element)
      THEN Pushed(conceal_array_entry(builder.object, hasher, path, element[1],
                                      gen_rand(RandomBytes(builder.draws))))
      ELSE Pushed(conceal(builder.object, hasher, path, gen_rand(RandomBytes(builder.draws))))

\* A chain of make_concealable calls, each unwrapped.
RECURSIVE MakeConcealableAll(_, _, _)
MakeConcealableAll(builder, hasher, targets) ==
  IF Len(targets) = 0 THEN builder
  ELSE MakeConcealableAll(
         make_concealable(builder, hasher, Head(targets).path, Head(targets).element).ok,
         hasher, Tail(targets))

\* SdJwtBuilder::add_decoys: Ok(builder) or Err.
builder_add_decoys(builder, hasher, path, number_of_decoys) ==
  LET Added(r) ==
        IF ~IsOk(r.res) THEN r.res
        ELSE Ok([builder EXCEPT !.object = r.object, !.draws = r.draw])
  IN  Added(add_decoys(builder.object, hasher, path, number_of_decoys, builder.draws, 0))

\* SdJwtBuilder::require_key_binding, key_bind being the JSON value the
\* RequiredKeyBinding serializes to.
require_key_binding(builder, key_bind) == [builder EXCEPT !.key_bind = Some(key_bind)]

\* The object finish signs: `_sd_alg` added, and `cnf` when a key binding is
\* required.
WithCnf(object, key_bind) ==
  IF IsSome(key_bind) THEN MapInsert(object, KeyCnf, key_bind[1]) ELSE object

\* SdJwtBuilder::finish, the signer returning `jws`: Ok(SdJwt) or Err.
SdJwtBuilderFinish(builder, hasher, typ, alg, jws) ==
  LET Signed(claims) ==
        IF ~IsOk(claims) THEN claims
        ELSE Ok([jwt |-> [header    |-> (KeyTyp :> JStr(typ)) @@ (KeyAlg :> JStr(alg)),
                          claims    |-> claims.ok,
                          signature |-> jws],
                 disclosures |-> builder.disclosures,
                 key_binding_jwt |-> None])
  IN  Signed(SdJwtClaimsFrom(JObj(WithCnf(add_sd_alg_property(builder.object, hasher),
                                          builder.key_bind))))

(***************************************************************************)
(* The objects, paths and salts the operations are called with.            *)
(***************************************************************************)
KeyA == <<65>>        \* "A"
KeyB == <<Ch.b>>
KeyC == <<Ch.c>>
KeyE == <<101>>       \* "e"

ObjectOf(pairs) == [k \in {p[1] : p \in pairs} |-> (CHOOSE p \in pairs : p[1] = k)[2]]

\* {"A": {"b": "x?"}, "c": [1, 2], "e": true}
Object1 ==
  ObjectOf({<<KeyA, JObj(ObjectOf({<<KeyB, JStr(<<Ch.x, Ch.qmark>>)>>}))>>,
            <<KeyC, JArr(<<JNum(1), JNum(2)>>)>>,
            <<KeyE, JBool(TRUE)>>})

\* {"A": {"b": 1}, "c": [{}, "x"]}
Object2 ==
  ObjectOf({<<KeyA, JObj(ObjectOf({<<KeyB, JNum(1)>>}))>>,
            <<KeyC, JArr(<<JObj(EmptyMap), JStr(<<Ch.x>>)>>)>>})

\* {"A": {}, "c": []}
Object4 == ObjectOf({<<KeyA, JObj(EmptyMap)>>, <<KeyC, JArr(<<>>)>>})

\* {"A": 1, "_sd": 1, "e": true}
Object5 == ObjectOf({<<KeyA, JNum(1)>>, <<DIGESTS_KEY, JNum(1)>>, <<KeyE, JBool(TRUE)>>})

Objects == {Object1, Object2, Object4, Object5}

Paths == {<<KeyA>>, <<KeyA, KeyB>>, <<KeyC>>, <<KeyE>>}
ArrayPaths == {<<KeyC>>, <<KeyA>>}
DecoyPaths == {<<>>, <<KeyA>>, <<KeyC>>}
Salts == {None}

MaxOps    == 2     \* encoder calls on one object
MaxIndex  == 2     \* array indices 0..MaxIndex
MaxDecoys == 1     \* decoys of one add_decoys call
MaxEdits  == 2     \* changes made to the SD object and the disclosure list

(***************************************************************************)
(* State.                                                                  *)
(*   pc          where the run stands                                      *)
(*   original    the object the encoder was created with                   *)
(*   object      SdObjectEncoder.object                                    *)
(*   issued      the disclosures the encoder returned, each with the path  *)
(*               (and index) it was asked for                              *)
(*   draws       the number of draws made from the random generator        *)
(*   ops         the number of encoder calls made                          *)
(*   refused     whether an encoder call returned an error                 *)
(*   decoys      the number of decoy digests the encoder added             *)
(*   enc_call    None, or Some of the last encoder call: its name, its     *)
(*               path, its index or number of decoys, the object before    *)
(*               it and what it returned                                   *)
(*   hashers     SdObjectDecoder.hashers: the hasher registered under each *)
(*               algorithm name                                            *)
(*   dec_log     the hashers the decoder was made with and the calls of    *)
(*               add_hasher and remove_hasher made on it since             *)
(*   sd_object   the object handed to SdObjectDecoder::decode              *)
(*   disclosures the disclosure strings handed to decode                   *)
(*   edits       the number of changes made to sd_object and disclosures   *)
(*   decoded     None, or Some of what decode returned                     *)
(*   new_args    the salt, claim name and claim value given to            *)
(*               Disclosure::new                                           *)
(*   made        None, or Some of the Disclosure that Disclosure::new made *)
(*   parsed      None, or Some of what Disclosure::parse returned          *)
(*   token       the string given to SdJwt::parse                          *)
(*   sd_jwt      None, or Some of what SdJwt::parse returned               *)
(*   serialized  None, or Some of the string SdJwt::presentation returned  *)
(*   sd_builder  None, or Some of the SdJwtBuilder                         *)
(*   sd_log      the calls made on the SdJwtBuilder, each with its name,   *)
(*               its arguments, the object and the number of draws before  *)
(*               it                                                        *)
(***************************************************************************)
VARIABLES pc, original, object, issued, draws, ops, refused, decoys, enc_call,
          hashers, dec_log, sd_object, disclosures, edits, decoded,
          new_args, made, parsed,
          token, sd_jwt, serialized,
          builder, finished, calls, last,
          kb_claims, kb_call, kb_jwt,
          sd_builder, sd_log

encoder_vars    == <<original, object, issued, draws, ops, refused, decoys, enc_call>>
registry_vars   == <<hashers, dec_log>>
decoder_vars    == <<registry_vars, sd_object, disclosures, edits, decoded>>
disclosure_vars == <<new_args, made, parsed>>
sd_jwt_vars     == <<token, sd_jwt, serialized>>
presentation_vars == <<builder, finished, calls, last>>
kb_vars         == <<kb_claims, kb_call, kb_jwt>>
builder_vars    == <<sd_builder, sd_log>>
vars == <<pc, encoder_vars, decoder_vars, disclosure_vars, sd_jwt_vars, presentation_vars,
          kb_vars, builder_vars>>

\* The variables an encoder or decoder step leaves alone, and their values
\* while the encoder and the decoder run.
DisclosureIdle == new_args = <<>> /\ made = None /\ parsed = None
SdJwtIdle == token = <<>> /\ sd_jwt = None /\ serialized = None
PresentationIdle == builder = None /\ finished = None /\ calls = 0 /\ last = None
KbIdle == kb_claims = EmptyMap /\ kb_call = None /\ kb_jwt = None
BuilderIdle == sd_builder = None /\ sd_log = <<>>
\* The decoder of the runs that do not change its hashers.
RegistryIdle == hashers = new_with_sha256 /\ dec_log = <<>>

beside_codec == <<disclosure_vars, sd_jwt_vars, presentation_vars, kb_vars, builder_vars>>
BesideCodecIdle == DisclosureIdle /\ SdJwtIdle /\ PresentationIdle /\ KbIdle /\ BuilderIdle
beside_disclosure ==
  <<encoder_vars, decoder_vars, sd_jwt_vars, presentation_vars, kb_vars, builder_vars>>
beside_sd_jwt ==
  <<encoder_vars, decoder_vars, disclosure_vars, presentation_vars, kb_vars, builder_vars>>

\* The encoder's hasher (SdObjectEncoder::try_from: Sha256Hasher).
EncoderHasher == SHA_ALG_NAME

Init ==
  /\ pc = "encode"
  /\ original \in Objects
  /\ object = original
  /\ issued = <<>>
  /\ draws = 0
  /\ ops = 0
  /\ refused = FALSE
  /\ decoys = 0
  /\ enc_call = None
  /\ RegistryIdle
  /\ sd_object = EmptyMap
  /\ disclosures = <<>>
  /\ edits = 0
  /\ decoded = None
  /\ BesideCodecIdle

\* The salt of a call: the caller's, or a random one.  The random one is
\* drawn in either case.
SaltOf(salt, draw) == IF IsSome(salt) THEN salt[1] ELSE gen_rand(RandomBytes(draw))

Issue(r, path, element_index) ==
  IF IsOk(r.res)
  THEN Append(issued, [d |-> r.res.ok, path |-> path, index |-> element_index])
  ELSE issued

\* encoder.conceal(path, salt)
Conceal(path, salt) ==
  LET Result(r) ==
        /\ object' = r.object
        /\ issued' = Issue(r, path, None)
        /\ refused' = (refused \/ ~IsOk(r.res))
        /\ enc_call' = Some([op |-> "conceal", path |-> path, n |-> None,
                             before |-> object, res |-> r.res])
  IN  /\ pc = "encode" /\ ops < MaxOps
      /\ Result(conceal(object, EncoderHasher, path, SaltOf(salt, draws)))
      /\ draws' = draws + 1
      /\ ops' = ops + 1
      /\ UNCHANGED <<pc, original, decoys, decoder_vars, beside_codec>>

\* encoder.conceal_array_entry(path, element_index, salt)
ConcealArrayEntry(path, element_index, salt) ==
  LET Result(r) ==
        /\ object' = r.object
        /\ issued' = Issue(r, path, Some(element_index))
        /\ refused' = (refused \/ ~IsOk(r.res))
        /\ enc_call' = Some([op |-> "conceal_array_entry", path |-> path,
                             n |-> Some(element_index), before |-> object, res |-> r.res])
  IN  /\ pc = "encode" /\ ops < MaxOps
      /\ Result(conceal_array_entry(object, EncoderHasher, path, element_index,
                                       SaltOf(salt, draws)))
      /\ draws' = draws + 1
      /\ ops' = ops + 1
      /\ UNCHANGED <<pc, original, decoys, decoder_vars, beside_codec>>

\* encoder.add_decoys(path, number_of_decoys)
AddDecoys(path, number_of_decoys) ==
  LET Result(r) ==
        /\ object' = r.object
        /\ draws' = r.draw
        /\ decoys' = decoys + r.added
        /\ refused' = (refused \/ ~IsOk(r.res))
        /\ enc_call' = Some([op |-> "add_decoys", path |-> path,
                             n |-> Some(number_of_decoys), before |-> object, res |-> r.res])
  IN  /\ pc = "encode" /\ ops < MaxOps
      /\ Result(add_decoys(object, EncoderHasher, path, number_of_decoys, draws, 0))
      /\ ops' = ops + 1
      /\ UNCHANGED <<pc, original, issued, decoder_vars, beside_codec>>

\* encoder.add_sd_alg_property()
AddSdAlgProperty ==
  /\ pc = "encode" /\ ops < MaxOps
  /\ object' = add_sd_alg_property(object, EncoderHasher)
  /\ enc_call' = Some([op |-> "add_sd_alg_property", path |-> <<>>, n |-> None,
                       before |-> object, res |-> Ok(<<>>)])
  /\ ops' = ops + 1
  /\ UNCHANGED <<pc, original, issued, draws, refused, decoys, decoder_vars, beside_codec>>

\* The encoder's object and the disclosures it returned go to the holder,
\* when no call of the encoder returned an error.
Hand ==
  /\ pc = "encode" /\ ~refused
  /\ pc' = "hold"
  /\ sd_object' = object
  /\ disclosures' = [i \in 1..Len(issued) |-> issued[i].d.disclosure]
  /\ UNCHANGED <<encoder_vars, registry_vars, edits, decoded, beside_codec>>

Without(seq, i) == SubSeq(seq, 1, i - 1) \o SubSeq(seq, i + 1, Len(seq))

\* The holder withholds a disclosure.
Withhold(i) ==
  /\ pc = "hold"
  /\ i \in 1..Len(disclosures)
  /\ disclosures' = Without(disclosures, i)
  /\ UNCHANGED <<pc, encoder_vars, registry_vars, sd_object, edits, decoded, beside_codec>>

\* A disclosure is supplied a second time.
SupplyAgain(i) ==
  /\ pc = "hold" /\ edits < MaxEdits
  /\ i \in 1..Len(disclosures)
  /\ disclosures' = Append(disclosures, disclosures[i])
  /\ edits' = edits + 1
  /\ UNCHANGED <<pc, encoder_vars, registry_vars, sd_object, decoded, beside_codec>>

\* Every segment of `ks` names an object-valued property.
RECURSIVE IsObjectPath(_, _)
IsObjectPath(m, ks) ==
  IF Len(ks) = 0 THEN TRUE
  ELSE IF Head(ks) \notin DOMAIN m THEN FALSE
  ELSE IF ~IsObj(m[Head(ks)]) THEN FALSE
  ELSE IsObjectPath(m[Head(ks)].obj, Tail(ks))

CleartextValue == JStr(<<Ch.y>>)

\* A concealed property is put back in the clear beside its digest.
InsertCleartext(i) ==
  LET Beside(parent, claim_name) ==
        /\ IsObjectPath(sd_object, parent)
        /\ sd_object' = SetMap(sd_object, parent,
                               MapInsert(GetMap(sd_object, parent), claim_name, CleartextValue))
  IN  /\ pc = "hold" /\ edits < MaxEdits
      /\ i \in 1..Len(issued)
      /\ IsSome(issued[i].d.claim_name)
      /\ Beside(SubSeq(issued[i].path, 1, Len(issued[i].path) - 1), issued[i].d.claim_name[1])
      /\ edits' = edits + 1
      /\ UNCHANGED <<pc, encoder_vars, registry_vars, disclosures, decoded, beside_codec>>

\* The digest of an issued disclosure is written once more, into the `_sd`
\* array of the top level.
RepeatDigest(i) ==
  LET Written(added) == IsOk(added) /\ sd_object' = added.ok
  IN  /\ pc = "hold" /\ edits < MaxEdits
      /\ i \in 1..Len(issued)
      /\ Written(add_digest_to_object(
                   sd_object, encoded_digest(EncoderHasher, issued[i].d.disclosure)))
      /\ edits' = edits + 1
      /\ UNCHANGED <<pc, encoder_vars, registry_vars, disclosures, decoded, beside_codec>>

\* decoder.decode(sd_object, disclosures)
Decode ==
  /\ pc = "hold"
  /\ pc' = "done"
  /\ decoded' = Some(decode(hashers, sd_object, disclosures))
  /\ UNCHANGED <<encoder_vars, registry_vars, sd_object, disclosures, edits, beside_codec>>

Next ==
  \/ \E path \in Paths, salt \in Salts : Conceal(path, salt)
  \/ \E path \in ArrayPaths, element_index \in 0..MaxIndex, salt \in Salts :
       ConcealArrayEntry(path, element_index, salt)
  \/ \E path \in DecoyPaths, n \in 1..MaxDecoys : AddDecoys(path, n)
  \/ AddSdAlgProperty
  \/ Hand
  \/ \E i \in 1..MaxOps : Withhold(i)
  \/ \E i \in 1..MaxOps : SupplyAgain(i)
  \/ \E i \in 1..MaxOps : InsertCleartext(i)
  \/ \E i \in 1..MaxOps : RepeatDigest(i)
  \/ Decode

Spec == Init /\ [][Next]_vars

(***************************************************************************)
(* What the claims about the encoder and the decoder speak of.             *)
(***************************************************************************)
Range(seq) == {seq[i] : i \in 1..Len(seq)}
NoRepeat(seq) == \A i, j \in 1..Len(seq) : seq[i] = seq[j] => i = j

\* An array element of the form {"...": digest}.
IsArrayDigest(v) == IsObj(v) /\ DOMAIN v.obj = {ARRAY_DIGEST_KEY}

\* The `_sd` digests of the object map m, in their order.
SdEntries(m) ==
  IF DIGESTS_KEY \in DOMAIN m /\ IsArr(m[DIGESTS_KEY])
  THEN SelectSeq(m[DIGESTS_KEY].arr, IsStr)
  ELSE <<>>

\* The digests written in a JSON value, at any depth, one entry for each
\* occurrence.
RECURSIVE Occurrences(_)
Occurrences(v) ==
  IF IsObj(v) THEN
    [i \in 1..Len(SdEntries(v.obj)) |-> SdEntries(v.obj)[i].str]
      \o Concat([i \in 1..Len(Keys(v.obj)) |->
                   IF Keys(v.obj)[i] = DIGESTS_KEY THEN <<>>
                   ELSE Occurrences(v.obj[Keys(v.obj)[i]])])
  ELSE IF IsArr(v) THEN
    Concat([i \in 1..Len(v.arr) |->
              IF IsArrayDigest(v.arr[i]) /\ IsStr(v.arr[i].obj[ARRAY_DIGEST_KEY])
              THEN <<v.arr[i].obj[ARRAY_DIGEST_KEY].str>>
              ELSE Occurrences(v.arr[i])])
  ELSE <<>>

Mentioned(v) == Range(Occurrences(v))

\* A JSON value holds an `_sd` key or a {"...": digest} element at any depth.
RECURSIVE HasDigestForm(_)
HasDigestForm(v) ==
  IF IsObj(v) THEN
    \/ DIGESTS_KEY \in DOMAIN v.obj
    \/ \E k \in DOMAIN v.obj : HasDigestForm(v.obj[k])
  ELSE IF IsArr(v) THEN
    \E i \in 1..Len(v.arr) : IsArrayDigest(v.arr[i]) \/ HasDigestForm(v.arr[i])
  ELSE FALSE

\* The object maps within a JSON value.
RECURSIVE Levels(_)
Levels(v) ==
  IF IsObj(v) THEN {v.obj} \cup UNION {Levels(v.obj[k]) : k \in DOMAIN v.obj}
  ELSE IF IsArr(v) THEN UNION {Levels(v.arr[i]) : i \in 1..Len(v.arr)}
  ELSE {}

DigestOf(wire) == encoded_digest(SHA_ALG_NAME, wire)
SuppliedDigests == {DigestOf(disclosures[i]) : i \in 1..Len(disclosures)}
AllParse == \A i \in 1..Len(disclosures) : IsOk(DisclosureParse(disclosures[i]))

\* The value of the supplied disclosure of digest dg (null if it has none
\* that parses).
SuppliedValue(dg) ==
  LET of == {i \in 1..Len(disclosures) :
               DigestOf(disclosures[i]) = dg /\ IsOk(DisclosureParse(disclosures[i]))}
  IN  IF of = {} THEN JNull
      ELSE DisclosureParse(disclosures[CHOOSE i \in of : TRUE]).ok.claim_value

\* The digests referenced from the SD object: those written in it and those
\* written in the values of the supplied disclosures they lead to.
RECURSIVE Reached(_, _)
Reached(R, n) ==
  IF n = 0 THEN R
  ELSE Reached(R \cup UNION {Mentioned(SuppliedValue(dg)) : dg \in R}, n - 1)

Referenced == Reached(Mentioned(JObj(sd_object)), Len(disclosures))

\* The names x of the properties that stand in the clear at an object level
\* of the SD object whose `_sd` array holds the digest of a supplied
\* disclosure named x.
CollisionsAt(m) ==
  {x \in DOMAIN m \ {DIGESTS_KEY} :
     \E j \in 1..Len(SdEntries(m)), i \in 1..Len(disclosures) :
       /\ SdEntries(m)[j].str = DigestOf(disclosures[i])
       /\ IsOk(DisclosureParse(disclosures[i]))
       /\ DisclosureParse(disclosures[i]).ok.claim_name = Some(x)}

Collisions == UNION {CollisionsAt(m) : m \in Levels(JObj(sd_object))}

Returned == decoded[1].res
Substituted == decoded[1].subs

\* The supplied disclosures that were put nowhere.
Unconsumed == Len(disclosures) - Len(Substituted)

(***************************************************************************)
(* Properties of the encoder and the decoder.                              *)
(***************************************************************************)
\* C1: decoding the encoder's object with exactly the disclosures the
\* encoder returned (nothing withheld, nothing changed, no decoys) succeeds
\* and yields the original object, `_sd_alg` stripped.
C1_RoundTrip ==
  (pc = "done" /\ edits = 0 /\ decoys = 0 /\ Len(disclosures) = Len(issued)) =>
    /\ IsOk(Returned)
    /\ Returned.ok = MapRemove(original, SD_ALG)

\* C2: an object that decode returns holds no `_sd` key and no {"...": digest}
\* element at any depth, and no `_sd_alg` at its root, also when digests of
\* the SD object have no supplied disclosure.
C2_NoDigestForms ==
  (pc = "done" /\ IsOk(Returned)) =>
    /\ ~HasDigestForm(JObj(Returned.ok))
    /\ SD_ALG \notin DOMAIN Returned.ok

\* C3: when decode succeeds every supplied disclosure was consumed exactly
\* once: its digest is referenced from the SD object and its value was put
\* at exactly one place, and no digest was put at two places.
C3_ConsumedOnce ==
  (pc = "done" /\ IsOk(Returned)) =>
    /\ NoRepeat(Substituted)
    /\ Len(Substituted) = Len(disclosures)
    /\ Range(Substituted) = SuppliedDigests
    /\ SuppliedDigests \subseteq Referenced

C3_Witness ==
  /\ pc = "done" /\ IsOk(Returned)
  /\ Len(disclosures) >= 2
  /\ Mentioned(JObj(sd_object)) # SuppliedDigests

\* C7: when a digest is written twice in the SD object, decode fails with
\* DuplicateDigestError.
C7_DuplicateDigest ==
  (pc = "done" /\ ~NoRepeat(Occurrences(JObj(sd_object)))) =>
    IsErr(Returned, "DuplicateDigestError")

\* C8: when the walk raises no error and k > 0 supplied disclosures are not
\* consumed, decode fails with UnusedDisclosures(k); the disclosures not
\* consumed are, of disclosures supplied once each, those whose digest is
\* not referenced from the SD object.
C8_UnusedCount ==
  (/\ pc = "done"
   /\ IsOk(Returned) \/ IsErr(Returned, "UnusedDisclosures")
   /\ Unconsumed > 0) =>
    /\ Returned = Err("UnusedDisclosures", Unconsumed)
    /\ NoRepeat(disclosures) =>
         Unconsumed = Cardinality({i \in 1..Len(disclosures) :
                                     DigestOf(disclosures[i]) \notin Referenced})

C8_Witness ==
  /\ pc = "done"
  /\ IsErr(Returned, "UnusedDisclosures")
  /\ Returned.err[2] = 1
  /\ Len(disclosures) = 2
  /\ NoRepeat(disclosures)

C10_WithheldSkipped ==
  (/\ pc = "done" /\ edits = 0
   /\ AllParse
   /\ SuppliedDigests \subseteq Referenced
   /\ Referenced \ SuppliedDigests # {}) =>
    /\ IsOk(Returned)
    /\ Mentioned(JObj(Returned.ok)) \cap (Referenced \ SuppliedDigests) = {}
    /\ Range(Substituted) = SuppliedDigests

\* The value a path of property names leads to, from the root object.
RECURSIVE ValueAt(_, _)
ValueAt(value, path) ==
  IF Len(path) = 0 THEN value ELSE ValueAt(value.obj[Head(path)], Tail(path))

\* `value` with the value the path leads to replaced by `new`.
RECURSIVE PutAt(_, _, _)
PutAt(value, path, new) ==
  IF Len(path) = 0 THEN new
  ELSE JObj([value.obj EXCEPT ![Head(path)] = PutAt(@, Tail(path), new)])

\* The digests a decoy may join: the `_sd` array of an object (empty when it
\* has none), or the array itself.
DigestPlaces(value) ==
  IF IsArr(value) THEN value.arr
  ELSE IF DIGESTS_KEY \in DOMAIN value.obj THEN value.obj[DIGESTS_KEY].arr
  ELSE <<>>

\* The target of add_decoys without its digest places.
BesideDigestPlaces(value) ==
  IF IsArr(value) THEN <<>> ELSE MapWithout(value.obj, {DIGESTS_KEY})

\* The disclosures the encoder returned so far.
IssuedDisclosures == [i \in 1..Len(issued) |-> issued[i].d.disclosure]

\* C18: when the last encoder call was a successful add_decoys(path, k), the
\* `_sd` array of the targeted object, or the targeted array itself, is the
\* one before the call with k entries appended, nothing else of the object
\* has changed, and decoding the object with the disclosures issued gives
\* what decoding the object before the call gives, an empty object or empty
\* array as target included.
C18_DecoysOnlyLengthen ==
  (/\ pc = "encode" /\ IsSome(enc_call)
   /\ enc_call[1].op = "add_decoys" /\ IsOk(enc_call[1].res)) =>
    LET before == ValueAt(JObj(enc_call[1].before), enc_call[1].path)
        after  == ValueAt(JObj(object), enc_call[1].path)
    IN  /\ Len(DigestPlaces(after)) = Len(DigestPlaces(before)) + enc_call[1].n[1]
        /\ SubSeq(DigestPlaces(after), 1, Len(DigestPlaces(before))) = DigestPlaces(before)
        /\ BesideDigestPlaces(after) = BesideDigestPlaces(before)
        /\ PutAt(JObj(object), enc_call[1].path, before) = JObj(enc_call[1].before)
        /\ decode(new_with_sha256, object, IssuedDisclosures)
             = decode(new_with_sha256, enc_call[1].before, IssuedDisclosures)

\* The value a path of property names leads to through objects: None when a
\* segment is missing or a segment before the last is not an object.
RECURSIVE Reach(_, _)
Reach(value, path) ==
  IF Len(path) = 0 THEN Some(value)
  ELSE IF IsObj(value) /\ Head(path) \in DOMAIN value.obj
  THEN Reach(value.obj[Head(path)], Tail(path))
  ELSE None

\* The parent of the target of the last encoder call, before the call and
\* with the target taken out: what the digest is added to.
ParentBeside ==
  MapWithout(Reach(JObj(enc_call[1].before),
                   SubSeq(enc_call[1].path, 1, Len(enc_call[1].path) - 1))[1].obj,
             {enc_call[1].path[Len(enc_call[1].path)]})

SdOf(m) == IF DIGESTS_KEY \in DOMAIN m THEN m[DIGESTS_KEY].arr ELSE <<>>

\* C24: after a successful conceal of a property, the parent is without the
\* property, its `_sd` array is the one before (none: the empty one) with
\* the digest of the returned disclosure's string appended, and the
\* disclosure has the property's name and value; after a successful
\* conceal_array_entry of element i, the array has its length, element i is
\* {"...": digest} of the returned disclosure, which has no name and the
\* former element as value; everything else of the object is as before.
C24_ConcealEffect ==
  (pc = "encode" /\ IsSome(enc_call) /\ IsOk(enc_call[1].res)) =>
    LET path       == enc_call[1].path
        d          == enc_call[1].res.ok
        dig        == JStr(encoded_digest(EncoderHasher, d.disclosure))
        InObject(key, before, after) ==
          /\ key \notin DOMAIN after
          /\ DOMAIN after = (DOMAIN before \ {key}) \cup {DIGESTS_KEY}
          /\ after[DIGESTS_KEY] = JArr(Append(SdOf(before), dig))
          /\ \A k \in DOMAIN before \ {key, DIGESTS_KEY} : after[k] = before[k]
          /\ d.claim_name = Some(key)
          /\ d.claim_value = before[key]
        InArray(i, before, after) ==
          /\ Len(after) = Len(before)
          /\ DOMAIN after[i].obj = {ARRAY_DIGEST_KEY}
          /\ after[i].obj[ARRAY_DIGEST_KEY] = dig
          /\ \A k \in 1..Len(before) : k # i => after[k] = before[k]
          /\ d.claim_name = None
          /\ d.claim_value = before[i]
        parent     == SubSeq(path, 1, Len(path) - 1)
    IN  /\ enc_call[1].op = "conceal" =>
             /\ InObject(path[Len(path)],
                         ValueAt(JObj(enc_call[1].before), parent).obj,
                         ValueAt(JObj(object), parent).obj)
             /\ PutAt(JObj(object), parent, ValueAt(JObj(enc_call[1].before), parent))
                  = JObj(enc_call[1].before)
        /\ enc_call[1].op = "conceal_array_entry" =>
             /\ InArray(enc_call[1].n[1] + 1,
                        ValueAt(JObj(enc_call[1].before), path).arr,
                        ValueAt(JObj(object), path).arr)
             /\ PutAt(JObj(object), path, ValueAt(JObj(enc_call[1].before), path))
                  = JObj(enc_call[1].before)

\* A property was concealed in an object that had an `_sd` array.
C24_Witness ==
  /\ pc = "encode" /\ IsSome(enc_call) /\ IsOk(enc_call[1].res)
  /\ enc_call[1].op = "conceal"
  /\ Len(enc_call[1].path) = 1
  /\ Len(SdOf(enc_call[1].before)) = 1
  /\ Len(SdOf(object)) = 2

\* C21: when conceal, conceal_array_entry or add_decoys returns an error, the
\* encoder's object is exactly what it was before the call.
C21_NoPartialState ==
  (/\ pc = "encode" /\ IsSome(enc_call)
   /\ enc_call[1].op \in {"conceal", "conceal_array_entry", "add_decoys"}
   /\ ~IsOk(enc_call[1].res))
    => object = enc_call[1].before

(***************************************************************************)
(* A decoder whose hashers are added and removed between the calls of      *)
(* decode.  The object decoded comes from an encoder made with             *)
(* with_custom_hasher that concealed one property; its `_sd_alg` is        *)
(* absent, names an algorithm, or is not a string.                         *)
(***************************************************************************)
AlgX == <<Ch.x>>
AlgY == <<Ch.y>>

DecoderHashers == {SHA_ALG_NAME, OtherSha256Hasher, AlgX}
RemovedAlgs == {SHA_ALG_NAME, AlgX}
SdAlgValues == {None, Some(JStr(SHA_ALG_NAME)), Some(JStr(AlgX)), Some(JStr(AlgY)),
                Some(JNum(1))}
NewDecoders == {"new", "new_with_sha256"}

MaxDecoderCalls == 3   \* calls of add_hasher and remove_hasher on one decoder

\* The object of the encoder after conceal(["e"]), with the `_sd_alg` given.
EncodedWith(hasher, sd_alg) ==
  LET With(r) ==
        [object      |-> IF IsSome(sd_alg) THEN MapInsert(r.object, SD_ALG, sd_alg[1])
                         ELSE r.object,
         disclosures |-> <<r.res.ok.disclosure>>]
  IN  With(conceal(Object1, hasher, <<KeyE>>, gen_rand(RandomBytes(0))))

InitDecoder ==
  /\ pc = "decoder"
  /\ original = Object1
  /\ \E hasher \in DecoderHashers, sd_alg \in SdAlgValues :
       /\ object = EncodedWith(hasher, sd_alg).object
       /\ disclosures = EncodedWith(hasher, sd_alg).disclosures
  /\ sd_object = object
  /\ \E made_by \in NewDecoders :
       /\ hashers = IF made_by = "new" THEN SdObjectDecoderNew ELSE new_with_sha256
       /\ dec_log = <<[op |-> made_by, arg |-> <<>>]>>
  /\ issued = <<>> /\ draws = 1 /\ ops = 1 /\ refused = FALSE /\ decoys = 0
  /\ enc_call = None
  /\ edits = 0
  /\ decoded = None
  /\ BesideCodecIdle

beside_registry == <<pc, encoder_vars, sd_object, disclosures, edits, beside_codec>>

\* decoder.add_hasher(hasher)
AddHasher(hasher) ==
  /\ pc = "decoder" /\ Len(dec_log) <= MaxDecoderCalls
  /\ hashers' = add_hasher(hashers, hasher)
  /\ dec_log' = Append(dec_log, [op |-> "add_hasher", arg |-> hasher])
  /\ decoded' = None
  /\ UNCHANGED beside_registry

\* decoder.remove_hasher(hash_alg)
RemoveHasher(hash_alg) ==
  /\ pc = "decoder" /\ Len(dec_log) <= MaxDecoderCalls
  /\ hashers' = remove_hasher(hashers, hash_alg)
  /\ dec_log' = Append(dec_log, [op |-> "remove_hasher", arg |-> hash_alg])
  /\ decoded' = None
  /\ UNCHANGED beside_registry

\* decoder.decode(sd_object, disclosures), with the hashers as they are.
DecodeRegistered ==
  /\ pc = "decoder"
  /\ decoded' = Some(decode(hashers, sd_object, disclosures))
  /\ UNCHANGED <<registry_vars, beside_registry>>

NextDecoder ==
  \/ \E hasher \in DecoderHashers : AddHasher(hasher)
  \/ \E hash_alg \in RemovedAlgs : RemoveHasher(hash_alg)
  \/ DecodeRegistered

SpecDecoder == InitDecoder /\ [][NextDecoder]_vars

\* The hasher that the calls of the log leave registered under `alg`, None
\* when they leave none: the last add_hasher of a hasher of that name after
\* which the name was not removed.
RECURSIVE RegisteredBy(_, _)
RegisteredBy(log, alg) ==
  LET call == log[Len(log)]
  IN  IF Len(log) = 0 THEN None
      ELSE IF call.op = "new_with_sha256" /\ alg = SHA_ALG_NAME THEN Some(SHA_ALG_NAME)
      ELSE IF call.op = "add_hasher" /\ alg_name(call.arg) = alg THEN Some(call.arg)
      ELSE IF call.op = "remove_hasher" /\ call.arg = alg THEN None
      ELSE RegisteredBy(SubSeq(log, 1, Len(log) - 1), alg)

\* The digest written in the top-level `_sd` array of the object decoded.
WrittenDigest == sd_object[DIGESTS_KEY].arr[1].str

\* C22: decode uses the hasher registered, at the time of the call, under
\* the `_sd_alg` of the object ("sha-256" when it is absent): the disclosure
\* is put back when that hasher gives the digest written in the object and
\* is unused otherwise; decode fails with MissingHasher when no hasher is
\* registered under that name, and with DataTypeMismatch when `_sd_alg` is
\* not a string.
C22_HasherOfTheCall ==
  (pc = "decoder" /\ IsSome(decoded)) =>
    LET alg  == IF SD_ALG \in DOMAIN sd_object THEN sd_object[SD_ALG] ELSE JStr(SHA_ALG_NAME)
        res  == decoded[1].res
        Used(hasher) ==
          IF ~IsSome(hasher) THEN res = Err("MissingHasher", alg.str)
          ELSE IF encoded_digest(hasher[1], disclosures[1]) = WrittenDigest
          THEN res = Ok(original)
          ELSE res = Err("UnusedDisclosures", 1)
    IN  IF ~IsStr(alg) THEN IsErr(res, "DataTypeMismatch")
        ELSE Used(RegisteredBy(dec_log, alg.str))

\* decode failed with MissingHasher after the hasher registered under the
\* `_sd_alg` of the object was removed.
C22_Witness ==
  /\ pc = "decoder" /\ IsSome(decoded)
  /\ dec_log[Len(dec_log)].op = "remove_hasher"
  /\ IsSome(RegisteredBy(SubSeq(dec_log, 1, Len(dec_log) - 1), dec_log[Len(dec_log)].arg))
  /\ decoded[1].res = Err("MissingHasher", dec_log[Len(dec_log)].arg)

(***************************************************************************)
(* SdObjectDecoder::decode of {"c": array}, for the arrays of at most      *)
(* MaxElements elements: scalars, objects, an array, and objects with the  *)
(* key `...`.                                                              *)
(***************************************************************************)
KeyBang == <<33>>                    \* "!", which sorts before "..."

\* The disclosures of an array element "y", of the array element 2 and of a
\* property "b": 1.
ElementDisclosure == DisclosureNew(<<65, 81>>, None, JStr(<<Ch.y>>))
SecondDisclosure  == DisclosureNew(<<65, 103>>, None, JNum(2))
NamedDisclosure   == DisclosureNew(<<65, 81>>, Some(KeyB), JNum(1))

DigestEntry(d) == Tripledot(encoded_digest(SHA_ALG_NAME, d.disclosure))
WithKey(entry, key) == JObj(MapInsert(entry.obj, key, JNum(1)))

\* 1, "x", {}, {"b": 1}, [{}, {"...": second}], {"...": element},
\* {"...": named}, {"...": "zz"}, {"...": element, "a": 1} and
\* {"!": 1, "...": element}
Elements ==
  {JNum(1), JStr(<<Ch.x>>), JObj(EmptyMap), JObj(ObjectOf({<<KeyB, JNum(1)>>})),
   JArr(<<JObj(EmptyMap), DigestEntry(SecondDisclosure)>>),
   DigestEntry(ElementDisclosure), DigestEntry(NamedDisclosure),
   Tripledot(<<Ch.z, Ch.z>>),
   WithKey(DigestEntry(ElementDisclosure), <<Ch.a>>),
   WithKey(DigestEntry(ElementDisclosure), KeyBang)}

SuppliedLists ==
  {<<>>, <<ElementDisclosure.disclosure>>, <<NamedDisclosure.disclosure>>,
   <<ElementDisclosure.disclosure, SecondDisclosure.disclosure>>,
   <<SecondDisclosure.disclosure>>}

MaxElements == 3

InitElements ==
  /\ pc = "elements"
  /\ \E n \in 0..MaxElements : \E array \in [1..n -> Elements] :
       original = ObjectOf({<<KeyC, JArr(array)>>})
  /\ object = original
  /\ sd_object = original
  /\ disclosures \in SuppliedLists
  /\ issued = <<>> /\ draws = 0 /\ ops = 0 /\ refused = FALSE /\ decoys = 0
  /\ enc_call = None
  /\ RegistryIdle
  /\ edits = 0
  /\ decoded = None
  /\ BesideCodecIdle

\* decoder.decode(sd_object, disclosures)
DecodeElements ==
  /\ pc = "elements"
  /\ pc' = "decoded_elements"
  /\ decoded' = Some(decode(hashers, sd_object, disclosures))
  /\ UNCHANGED <<encoder_vars, registry_vars, sd_object, disclosures, edits, beside_codec>>

NextElements == DecodeElements

SpecElements == InitElements /\ [][NextElements]_vars

\* The array decoded.
InputArray == sd_object[KeyC].arr

\* What the claim says of an element: the error it causes, None when the
\* claim names none for it.
Supplied(hash) ==
  {i \in 1..Len(disclosures) : encoded_digest(SHA_ALG_NAME, disclosures[i]) = hash}

NamedSupplied(hash) ==
  \E i \in Supplied(hash) : IsSome(DisclosureParse(disclosures[i]).ok.claim_name)

Caused(element) ==
  IF IsObj(element) /\ ARRAY_DIGEST_KEY \in DOMAIN element.obj
  THEN IF Cardinality(DOMAIN element.obj) > 1 THEN Some("InvalidArrayDisclosureObject")
       ELSE IF IsStr(element.obj[ARRAY_DIGEST_KEY])
               /\ NamedSupplied(element.obj[ARRAY_DIGEST_KEY].str)
       THEN Some("InvalidDisclosure")
       ELSE None
  ELSE None

\* C25: in decode, the first array element that is an object with the key
\* `...` and another key, whatever its name, makes decode fail with
\* InvalidArrayDisclosureObject, and the first that is {"...": digest} with
\* the digest of a supplied disclosure that has a claim name makes it fail
\* with InvalidDisclosure; the elements before it are all different, so no
\* digest is met twice before.
C25_ArrayRefusals ==
  pc = "decoded_elements" =>
    \A i \in 1..Len(InputArray) :
      (/\ IsSome(Caused(InputArray[i]))
       /\ \A k \in 1..(i - 1) : ~IsSome(Caused(InputArray[k]))
       /\ NoRepeat(SubSeq(InputArray, 1, i)))
        => IsErr(decoded[1].res, Caused(InputArray[i])[1])

\* An element that is {"...": digest}.
IsMarker(element) ==
  /\ IsObj(element)
  /\ DOMAIN element.obj = {ARRAY_DIGEST_KEY}
  /\ IsStr(element.obj[ARRAY_DIGEST_KEY])

\* The value of the supplied disclosure with this digest.
ValueSupplied(hash) ==
  DisclosureParse(disclosures[CHOOSE i \in Supplied(hash) : TRUE]).ok.claim_value

\* What the claim says the output holds for an array: every element that is
\* not a marker, in its place, the arrays among them decoded in turn (the
\* objects here hold no digests), and for a marker the value of its
\* disclosure when it is supplied.
RECURSIVE KeptInOrder(_)
KeptInOrder(array) ==
  LET Kept(element) ==
        IF IsMarker(element)
        THEN IF Supplied(element.obj[ARRAY_DIGEST_KEY].str) = {}
             THEN <<>>
             ELSE <<ValueSupplied(element.obj[ARRAY_DIGEST_KEY].str)>>
        ELSE IF IsArr(element) THEN <<JArr(KeptInOrder(element.arr))>>
        ELSE <<element>>
  IN  IF array = <<>> THEN <<>>
      ELSE Kept(array[1]) \o KeptInOrder(SubSeq(array, 2, Len(array)))

\* An array of the output without the markers left in it, at any depth (no
\* value disclosed here is a marker).
RECURSIVE Unmarked(_)
Unmarked(array) ==
  LET Left(element) ==
        IF IsMarker(element) THEN <<>>
        ELSE IF IsArr(element) THEN <<JArr(Unmarked(element.arr))>>
        ELSE <<element>>
  IN  IF array = <<>> THEN <<>>
      ELSE Left(array[1]) \o Unmarked(SubSeq(array, 2, Len(array)))

\* The array of the output.
OutputArray == decoded[1].res.ok[KeyC].arr

\* C30: when decode succeeds, the output array holds every element that is
\* not a {"...": digest} marker (scalars, arrays, objects, empty objects
\* too) and the values put in place of the markers, in the order of their
\* positions in the input array.
C30_KeptInOrder ==
  (pc = "decoded_elements" /\ IsOk(decoded[1].res)) =>
    Unmarked(OutputArray) = KeptInOrder(InputArray)

\* An array holds an empty object, at any depth.
RECURSIVE HoldsEmptyObject(_)
HoldsEmptyObject(array) ==
  \E i \in 1..Len(array) :
    \/ array[i] = JObj(EmptyMap)
    \/ IsArr(array[i]) /\ HoldsEmptyObject(array[i].arr)

\* The same of the arrays that hold no empty object.
C30_KeptInOrderButEmpty ==
  (pc = "decoded_elements" /\ IsOk(decoded[1].res) /\ ~HoldsEmptyObject(InputArray)) =>
    Unmarked(OutputArray) = KeptInOrder(InputArray)

\* A decode that put a value in place of a marker between two kept elements.
C30_Substituted ==
  /\ pc = "decoded_elements" /\ IsOk(decoded[1].res)
  /\ Len(InputArray) = 3
  /\ IsMarker(InputArray[2]) /\ ~IsMarker(InputArray[1]) /\ ~IsMarker(InputArray[3])
  /\ Len(OutputArray) = 3

(***************************************************************************)
(* Disclosure::new followed by Disclosure::parse of the string it made.    *)
(***************************************************************************)
NewSalts ==
  {<<65, 81>>,                   \* AQ
   <<Ch.s>>,                     \* s
   <<Ch.s, Ch.quote>>,           \* s"
   <<50, 71, 76, 67>>}           \* 2GLC

NewNames == {None, Some(KeyB), Some(<<Ch.t, Ch.bslash>>), Some(<<Ch.t, Ch.s>>)}

NewValues ==
  {JNum(1), JBool(TRUE), JNull,
   JStr(<<Ch.x>>), JStr(<<Ch.x, Ch.qmark>>),
   JArr(<<JNum(1), JStr(<<Ch.tilde>>)>>),
   JObj(ObjectOf({<<KeyB, JStr(<<Ch.x, Ch.qmark>>)>>}))}

CodecIdle ==
  /\ original = EmptyMap /\ object = EmptyMap /\ issued = <<>>
  /\ draws = 0 /\ ops = 0 /\ refused = FALSE /\ decoys = 0 /\ enc_call = None
  /\ RegistryIdle
  /\ sd_object = EmptyMap /\ disclosures = <<>> /\ edits = 0 /\ decoded = None

InitDisclosure ==
  /\ pc = "args"
  /\ new_args \in [salt : NewSalts, claim_name : NewNames, claim_value : NewValues]
  /\ made = None
  /\ parsed = None
  /\ CodecIdle
  /\ SdJwtIdle
  /\ PresentationIdle
  /\ KbIdle
  /\ BuilderIdle

\* Disclosure::new(salt, claim_name, claim_value)
New ==
  /\ pc = "args"
  /\ pc' = "made"
  /\ made' = Some(DisclosureNew(new_args.salt, new_args.claim_name, new_args.claim_value))
  /\ UNCHANGED <<new_args, parsed, beside_disclosure>>

\* Disclosure::parse(made.to_string())
Parse ==
  /\ pc = "made"
  /\ pc' = "parsed"
  /\ parsed' = Some(DisclosureParse(made[1].disclosure))
  /\ UNCHANGED <<new_args, made, beside_disclosure>>

NextDisclosure == New \/ Parse

SpecDisclosure == InitDisclosure /\ [][NextDisclosure]_vars

\* C5: parsing the string of a disclosure made by Disclosure::new succeeds
\* and returns the salt, the claim name and the claim value it was made of,
\* whatever the salt, the name and the value are.
C5_ParseOfNew ==
  pc = "parsed" =>
    /\ IsOk(parsed[1])
    /\ parsed[1].ok.salt = made[1].salt
    /\ parsed[1].ok.claim_name = made[1].claim_name
    /\ parsed[1].ok.claim_value = made[1].claim_value

(***************************************************************************)
(* SdJwt::parse followed by SdJwt::presentation.                           *)
(***************************************************************************)
Member(key, value_text) == Quoted(key) \o <<Ch.colon>> \o value_text
ObjectText(members) == <<Ch.lbrace>> \o Join(members, <<Ch.comma>>) \o <<Ch.rbrace>>

TextX == Quoted(<<Ch.x>>)
KeyLowA == <<Ch.a>>

\* {"alg":"x"} and, with a space as in the token of sd_jwt.rs's tests,
\* {"alg": "x"}
HeaderTexts ==
  {ObjectText(<<Member(KeyAlg, TextX)>>),
   ObjectText(<<Quoted(KeyAlg) \o <<Ch.colon, Ch.space>> \o TextX>>)}

SdText == to_string(JArr(<<JStr(<<Ch.x>>)>>))

\* {"_sd":["x"],"a":1}  {"A":1,"_sd":["x"]}  {"_sd":[],"a":1}  {"a":1}
PayloadTexts ==
  {ObjectText(<<Member(DIGESTS_KEY, SdText), Member(KeyLowA, Digits(1))>>),
   ObjectText(<<Member(KeyA, Digits(1)), Member(DIGESTS_KEY, SdText)>>),
   ObjectText(<<Member(DIGESTS_KEY, <<Ch.lbrack, Ch.rbrack>>), Member(KeyLowA, Digits(1))>>),
   ObjectText(<<Member(KeyLowA, Digits(1))>>)}

Signature == <<Ch.s>>

JwtText(header_text, payload_text) ==
  Base64UrlEncode(header_text) \o <<Ch.dot>> \o Base64UrlEncode(payload_text)
    \o <<Ch.dot>> \o Signature

\* {"alg":"x","typ":"kb+jwt"}
KbHeaderText ==
  ObjectText(<<Member(KeyAlg, TextX), Member(KeyTyp, Quoted(KB_JWT_HEADER_TYP))>>)

\* No KB-JWT, one with the claims in the order of the struct's fields, one
\* with the claims in the order of their names.
KbTexts ==
  {<<>>,
   JwtText(KbHeaderText,
           ObjectText(<<Member(KeyIat, Digits(1)), Member(KeyAud, TextX),
                        Member(KeyNonce, TextX), Member(KeySdHash, TextX)>>)),
   JwtText(KbHeaderText,
           ObjectText(<<Member(KeyAud, TextX), Member(KeyIat, Digits(1)),
                        Member(KeyNonce, TextX), Member(KeySdHash, TextX)>>))}

\* Headers a KB-JWT must not have: {"alg":"x","typ":"x"}, {"alg":"x"},
\* {"alg":"none","typ":"kb+jwt"}, {"typ":"kb+jwt"}; and one it may have,
\* {"alg":1,"typ":"kb+jwt"}.
OtherKbHeaderTexts ==
  {ObjectText(<<Member(KeyAlg, TextX), Member(KeyTyp, TextX)>>),
   ObjectText(<<Member(KeyAlg, TextX)>>),
   ObjectText(<<Member(KeyAlg, Quoted(AlgNone)), Member(KeyTyp, Quoted(KB_JWT_HEADER_TYP))>>),
   ObjectText(<<Member(KeyTyp, Quoted(KB_JWT_HEADER_TYP))>>),
   ObjectText(<<Member(KeyAlg, Digits(1)), Member(KeyTyp, Quoted(KB_JWT_HEADER_TYP))>>)}

OtherKbTexts ==
  {JwtText(h, ObjectText(<<Member(KeyIat, Digits(1)), Member(KeyAud, TextX),
                           Member(KeyNonce, TextX), Member(KeySdHash, TextX)>>)) :
     h \in OtherKbHeaderTexts}

Disclosure1 == DisclosureNew(<<65, 81>>, Some(KeyB), JNum(1)).disclosure
Disclosure2 == DisclosureNew(<<65, 103>>, None, JStr(<<Ch.x>>)).disclosure
DisclosureLists == {<<>>, <<Disclosure1>>, <<Disclosure1, Disclosure2>>}

\* <Issuer-signed JWT>~<D.1>~...~<D.N>~<optional KB-JWT>, the issuer's JWT
\* alone, tokens whose KB-JWT has another header, and tokens with an empty
\* segment or the segment "x" among the disclosures.
Tokens ==
  {Join(<<JwtText(h, p)>> \o ds \o <<kb>>, <<Ch.tilde>>) :
     h \in HeaderTexts, p \in PayloadTexts, ds \in DisclosureLists, kb \in KbTexts}
  \cup {JwtText(h, p) : h \in HeaderTexts, p \in PayloadTexts}
  \cup {Join(<<JwtText(ObjectText(<<Member(KeyAlg, TextX)>>),
                       ObjectText(<<Member(KeyLowA, Digits(1))>>))>> \o ds \o <<kb>>,
             <<Ch.tilde>>) :
          ds \in {<<>>, <<Disclosure2>>, <<Disclosure2, <<Ch.x>>>>}, kb \in OtherKbTexts}
  \cup {Join(<<JwtText(ObjectText(<<Member(KeyAlg, TextX)>>),
                       ObjectText(<<Member(KeyLowA, Digits(1))>>))>> \o ds \o <<kb>>,
             <<Ch.tilde>>) :
          ds \in {<<Disclosure1, <<>>>>, <<<<Ch.x>>, Disclosure1>>}, kb \in KbTexts}

InitSdJwt ==
  /\ pc = "token"
  /\ token \in Tokens
  /\ sd_jwt = None
  /\ serialized = None
  /\ CodecIdle
  /\ DisclosureIdle
  /\ PresentationIdle
  /\ KbIdle
  /\ BuilderIdle

\* SdJwt::parse(token)
ParseSdJwt ==
  /\ pc = "token"
  /\ pc' = "sd_jwt"
  /\ sd_jwt' = Some(SdJwtParse(token))
  /\ UNCHANGED <<token, serialized, beside_sd_jwt>>

\* The text after the last `~` of the token, the whole token without one.
FinalSegment(text) == Split(text, Ch.tilde)[Len(Split(text, Ch.tilde))]

\* The final segment of the token parsed as a KB-JWT on its own.
ParseKeyBindingJwt ==
  /\ pc = "token"
  /\ pc' = "kb_jwt"
  /\ kb_jwt' = Some(KeyBindingJwtFromStr(FinalSegment(token)))
  /\ UNCHANGED <<token, sd_jwt, serialized, kb_claims, kb_call,
                 encoder_vars, decoder_vars, disclosure_vars, presentation_vars, builder_vars>>

\* sd_jwt.presentation()
Presentation ==
  /\ pc = "sd_jwt"
  /\ IsOk(sd_jwt[1])
  /\ pc' = "presented"
  /\ serialized' = Some(presentation(sd_jwt[1].ok))
  /\ UNCHANGED <<token, sd_jwt, beside_sd_jwt>>

NextSdJwt == ParseSdJwt \/ ParseKeyBindingJwt \/ Presentation

SpecSdJwt == InitSdJwt /\ [][NextSdJwt]_vars

\* C4: the presentation of the SdJwt parsed from a string is that string,
\* byte for byte.
C4_PresentationOfParse ==
  pc = "presented" => serialized[1] = token

\* Whether the header of a JWT is one of a KB-JWT: typ is "kb+jwt", and alg
\* is there and is not "none".
KbHeader(header) ==
  /\ KeyTyp \in DOMAIN header /\ header[KeyTyp] = JStr(<<107, 98, 43, 106, 119, 116>>)
  /\ KeyAlg \in DOMAIN header /\ header[KeyAlg] # JStr(<<110, 111, 110, 101>>)

\* A text is a JWT with KB-JWT claims.
IsJwt(text) == IsOk(JwtFromStr(text, "KeyBindingJwtClaims"))

\* A JWT whose header is not one of a KB-JWT.
NotKbJwt(text) ==
  IsJwt(text) /\ ~KbHeader(JwtFromStr(text, "KeyBindingJwtClaims").ok.header)

\* The segments of the token between the first and the last.
MiddleSegments(text) == SubSeq(Split(text, Ch.tilde), 2, Len(Split(text, Ch.tilde)) - 1)

\* Parsing a text as a KB-JWT succeeds only with a KB-JWT header, and fails
\* with DeserializationError otherwise.
KbJwtParseChecked ==
  pc = "kb_jwt" =>
    /\ IsOk(kb_jwt[1]) => (IsJwt(FinalSegment(token)) /\ ~NotKbJwt(FinalSegment(token)))
    /\ ~(IsJwt(FinalSegment(token)) /\ ~NotKbJwt(FinalSegment(token)))
          => IsErr(kb_jwt[1], "DeserializationError")

Tildes(text) == Cardinality({i \in 1..Len(text) : text[i] = Ch.tilde})

\* C23: SdJwt::parse fails with DeserializationError when the input has
\* fewer than 2 segments; otherwise its result has a KB-JWT exactly when
\* the input does not end in `~`, and one disclosure for each segment
\* between the first and the last, in the order of the input; a segment
\* that is refused as a disclosure or as a KB-JWT makes the parse fail.
C23_ParseSegments ==
  pc = "sd_jwt" =>
    LET res    == sd_jwt[1]
        middle == MiddleSegments(token)
        final  == FinalSegment(token)
    IN  IF Tildes(token) + 1 < 2 THEN IsErr(res, "DeserializationError")
        ELSE /\ IsOk(res) =>
                  /\ IsSome(res.ok.key_binding_jwt) <=> token[Len(token)] # Ch.tilde
                  /\ Len(res.ok.disclosures) = Tildes(token) - 1
                  /\ \A i \in 1..Len(res.ok.disclosures) :
                       /\ res.ok.disclosures[i].disclosure = middle[i]
                       /\ res.ok.disclosures[i] = DisclosureParse(middle[i]).ok
             /\ (\E i \in 1..Len(middle) : ~IsOk(DisclosureParse(middle[i]))) => ~IsOk(res)
             /\ (Len(final) # 0 /\ ~IsOk(KeyBindingJwtFromStr(final))) => ~IsOk(res)

\* A token of two disclosures and a KB-JWT was parsed.
C23_Witness ==
  /\ pc = "sd_jwt"
  /\ IsOk(sd_jwt[1])
  /\ Len(sd_jwt[1].ok.disclosures) = 2
  /\ IsSome(sd_jwt[1].ok.key_binding_jwt)
  /\ token[Len(token)] # Ch.tilde

(***************************************************************************)
(* SdJwtPresentationBuilder on SD-JWTs issued by SdJwtBuilder.             *)
(*   sd_jwt    Some of what SdJwtBuilder::finish returned                  *)
(*   builder   None, or Some of the SdJwtPresentationBuilder               *)
(*   finished  None, or Some of what finish returned                       *)
(*   calls     the number of conceal, conceal_all and disclose calls made  *)
(*   last      None, or Some of the last call of new, conceal, conceal_all *)
(*             or disclose: its name, its path, whether it returned Ok,    *)
(*             the kind of its error, for new the hasher given, for        *)
(*             conceal the disclosure the path led to, and the indices     *)
(*             marked for omission before the call                         *)
(*             and after it (none after a call that failed: the builder is *)
(*             consumed)                                                   *)
(***************************************************************************)
KeyD == <<100>>       \* "d"
KeyX == <<Ch.x>>

\* {"a": {"b": {"c": 1}}, "d": [1, 2]}
Object3 ==
  ObjectOf({<<KeyLowA, JObj(ObjectOf({<<KeyB, JObj(ObjectOf({<<KeyC, JNum(1)>>}))>>}))>>,
            <<KeyD, JArr(<<JNum(1), JNum(2)>>)>>})

Property(path) == [path |-> path, element |-> None]
Element(path, index) == [path |-> path, element |-> Some(index)]

\* The chains of make_concealable calls the SD-JWTs are issued with.
Targets ==
  {<<>>,
   <<Property(<<KeyLowA, KeyB, KeyC>>)>>,
   <<Property(<<KeyLowA, KeyB>>), Property(<<KeyLowA>>)>>,
   <<Property(<<KeyLowA, KeyB, KeyC>>), Property(<<KeyLowA, KeyB>>)>>,
   <<Property(<<KeyLowA, KeyB, KeyC>>), Property(<<KeyLowA, KeyB>>), Property(<<KeyLowA>>)>>,
   <<Element(<<KeyD>>, 0), Property(<<KeyD>>)>>,
   <<Property(<<KeyLowA, KeyB, KeyC>>), Element(<<KeyD>>, 1)>>}

Pointer(segments) ==
  Concat([i \in 1..Len(segments) |-> <<Ch.slash>> \o segments[i]])

\* "/a", "/a/b", "/a/b/c", "/d", "/d/0", "/d/+1", "/x", "a/b"
PresentedPaths ==
  {Pointer(<<KeyLowA>>), Pointer(<<KeyLowA, KeyB>>), Pointer(<<KeyLowA, KeyB, KeyC>>),
   Pointer(<<KeyD>>), Pointer(<<KeyD, <<Ch.zero>>>>), Pointer(<<KeyD, <<Ch.plus, Ch.zero + 1>>>>),
   Pointer(<<KeyX>>), KeyLowA \o Pointer(<<KeyB>>)}

PresentationHashers == {SHA_ALG_NAME, KeyX}

MaxCalls == 3

Issued(targets) ==
  SdJwtBuilderFinish(MakeConcealableAll(SdJwtBuilderNew(Object3), SHA_ALG_NAME, targets),
                     SHA_ALG_NAME, KeyX, KeyX, Signature)

\* {"alg":"x"} . {"_sd":["x"],"a":1} . s ~ D1 ~ D2 ~ : no `_sd_alg`.
TokenWithoutAlg ==
  Join(<<JwtText(ObjectText(<<Member(KeyAlg, TextX)>>),
                 ObjectText(<<Member(DIGESTS_KEY, SdText), Member(KeyLowA, Digits(1))>>)),
         Disclosure1, Disclosure2, <<>>>>, <<Ch.tilde>>)

\* An SD-JWT whose disclosures are each given twice, as SdJwt::parse
\* returns it for a token that repeats them.
Repeated(issued_sd_jwt) == Ok([issued_sd_jwt.ok EXCEPT !.disclosures = @ \o @])

\* An SD-JWT issued with require_key_binding(RequiredKeyBinding::Kid("x")).
IssuedWithCnf ==
  SdJwtBuilderFinish(
    require_key_binding(
      MakeConcealableAll(SdJwtBuilderNew(Object3), SHA_ALG_NAME, <<Property(<<KeyD>>)>>),
      JObj(ObjectOf({<<<<107, 105, 100>>, JStr(<<Ch.x>>)>>}))),
    SHA_ALG_NAME, KeyX, KeyX, Signature)

\* An SD-JWT issued with make_concealable("/a/b"), add_decoys("/a", 1) and
\* add_decoys("", 1).
IssuedWithDecoys ==
  SdJwtBuilderFinish(
    builder_add_decoys(
      builder_add_decoys(
        MakeConcealableAll(SdJwtBuilderNew(Object3), SHA_ALG_NAME,
                           <<Property(<<KeyLowA, KeyB>>)>>),
        SHA_ALG_NAME, <<KeyLowA>>, 1).ok,
      SHA_ALG_NAME, <<>>, 1).ok,
    SHA_ALG_NAME, KeyX, KeyX, Signature)

\* The SD-JWTs that SdJwtBuilder issued.
IssuedSdJwts == {Issued(targets) : targets \in Targets} \cup {IssuedWithCnf, IssuedWithDecoys}

\* The SD-JWTs presented: those issued with sha-256, one of them with a `cnf`
\* claim and one with decoys, one issued with the custom hasher "x", a
\* parsed one without `_sd_alg`, and one with repeated disclosures.
PresentedSdJwts ==
  IssuedSdJwts
    \cup {SdJwtBuilderFinish(MakeConcealableAll(SdJwtBuilderNew(Object3), KeyX,
                                               <<Property(<<KeyLowA>>)>>),
                            KeyX, KeyX, KeyX, Signature),
          SdJwtParse(TokenWithoutAlg),
          Repeated(Issued(<<Property(<<KeyLowA, KeyB>>), Property(<<KeyD>>)>>))}

InitPresent ==
  /\ pc = "issued"
  /\ sd_jwt \in {Some(issued_sd_jwt) : issued_sd_jwt \in PresentedSdJwts}
  /\ token = <<>>
  /\ serialized = None
  /\ builder = None
  /\ finished = None
  /\ calls = 0
  /\ last = None
  /\ CodecIdle
  /\ DisclosureIdle
  /\ KbIdle
  /\ BuilderIdle

beside_presentation ==
  <<token, sd_jwt, serialized, encoder_vars, decoder_vars, disclosure_vars, kb_vars,
    builder_vars>>

\* The kind of the error of a Result, None of an Ok.
ErrorOf(r) == IF IsOk(r) THEN None ELSE Some(r.err[1])

\* SdJwtPresentationBuilder::new(sd_jwt, hasher)
NewBuilder(hasher) ==
  LET Result(made_builder) ==
        /\ IF IsOk(made_builder)
           THEN pc' = "building" /\ builder' = Some(made_builder.ok)
           ELSE pc' = "refused" /\ builder' = None
        /\ last' = Some([op |-> "new", path |-> <<>>, ok |-> IsOk(made_builder),
                         error |-> ErrorOf(made_builder), hasher |-> hasher,
                         target |-> None, before |-> {}, after |-> {}])
  IN  /\ pc = "issued"
      /\ Result(PresentationBuilderNew(sd_jwt[1].ok, hasher))
      /\ UNCHANGED <<finished, calls, beside_presentation>>

\* The disclosure a path leads to: the last one visited on the way.
Referenced_by(b, path) ==
  LET Last(visited) ==
        IF Len(visited) > 0 THEN Some(b.disclosures[visited[Len(visited)] + 1].value) ELSE None
      Traversed(found) == IF IsSome(found) THEN Last(found[1].visited_disclosures) ELSE None
  IN  Traversed(traverse_disclosable_object(b.object, PathSegments(path), b.disclosures, <<>>))

\* builder.conceal(path); the builder is consumed by a failing call.
PresentConceal(path) ==
  LET Result(r) ==
        /\ IF IsOk(r)
           THEN pc' = pc /\ builder' = Some(r.ok)
           ELSE pc' = "refused" /\ builder' = None
        /\ last' = Some([op |-> "conceal", path |-> path, ok |-> IsOk(r),
                         error |-> ErrorOf(r), target |-> Referenced_by(builder[1], path),
                         before |-> builder[1].disclosures_to_omit,
                         after |-> IF IsOk(r) THEN r.ok.disclosures_to_omit ELSE {}])
  IN  /\ pc = "building"
      /\ calls < MaxCalls
      /\ Result(PresentationConceal(builder[1], path))
      /\ calls' = calls + 1
      /\ UNCHANGED <<finished, beside_presentation>>

\* builder.conceal_all()
PresentConcealAll ==
  /\ pc = "building"
  /\ calls < MaxCalls
  /\ builder' = Some(conceal_all(builder[1]))
  /\ last' = Some([op |-> "conceal_all", path |-> <<>>, ok |-> TRUE, error |-> None,
                   target |-> None, before |-> builder[1].disclosures_to_omit,
                   after |-> 0..(Len(builder[1].disclosures) - 1)])
  /\ calls' = calls + 1
  /\ UNCHANGED <<pc, finished, beside_presentation>>

\* builder.disclose(path)
PresentDisclose(path) ==
  LET Result(r) ==
        /\ IF IsOk(r)
           THEN pc' = pc /\ builder' = Some(r.ok)
           ELSE pc' = "refused" /\ builder' = None
        /\ last' = Some([op |-> "disclose", path |-> path, ok |-> IsOk(r),
                         error |-> ErrorOf(r), target |-> None,
                         before |-> builder[1].disclosures_to_omit,
                         after |-> IF IsOk(r) THEN r.ok.disclosures_to_omit ELSE {}])
  IN  /\ pc = "building"
      /\ calls < MaxCalls
      /\ Result(disclose(builder[1], path))
      /\ calls' = calls + 1
      /\ UNCHANGED <<finished, beside_presentation>>

\* builder.finish()
PresentFinish ==
  /\ pc = "building"
  /\ pc' = "finished"
  /\ finished' = Some(PresentationFinish(builder[1]))
  /\ builder' = None
  /\ UNCHANGED <<calls, last, beside_presentation>>

\* sd_jwt.into_disclosed_object(hasher) of the SdJwt that finish returned,
\* with the hasher the presentation builder was made with.
PresentIntoDisclosedObject ==
  /\ pc = "finished"
  /\ pc' = "disclosed"
  /\ decoded' = Some(into_disclosed_object(finished[1].sd_jwt,
                                           RequiredHasher(finished[1].sd_jwt)))
  /\ UNCHANGED <<token, sd_jwt, serialized, encoder_vars, registry_vars, sd_object,
                 disclosures, edits, disclosure_vars, kb_vars, builder_vars,
                 presentation_vars>>

NextPresent ==
  \/ \E hasher \in PresentationHashers : NewBuilder(hasher)
  \/ \E path \in PresentedPaths : PresentConceal(path)
  \/ PresentConcealAll
  \/ \E path \in PresentedPaths : PresentDisclose(path)
  \/ PresentFinish
  \/ PresentIntoDisclosedObject

SpecPresent == InitPresent /\ [][NextPresent]_vars

\* The disclosures of the issued SD-JWT whose digest is written, at any
\* depth, in the value of a disclosure of `set`, and so on.
RECURSIVE NestedWithin(_)
NestedWithin(set) ==
  LET all  == Range(sd_jwt[1].ok.disclosures)
      more == {d \in all : \E e \in set :
                 encoded_digest(SHA_ALG_NAME, d.disclosure) \in Mentioned(e.claim_value)}
  IN  IF more \subseteq set THEN set ELSE NestedWithin(set \cup more)

\* The disclosures marked for omission, or returned as omitted.
Omitted ==
  IF pc = "building"
  THEN {builder[1].disclosures[i + 1].value : i \in builder[1].disclosures_to_omit}
  ELSE Range(finished[1].omitted_disclosures)

\* C6: when the last call before the present state was a successful
\* conceal(path), the disclosure the path leads to and every disclosure
\* nested at any depth within its value are marked for omission, and after
\* finish they are in the omitted list and not in the SD-JWT.
C6_ConcealOmitsNested ==
  (/\ pc \in {"building", "finished"}
   /\ IsSome(last) /\ last[1].op = "conceal" /\ last[1].ok) =>
     /\ NestedWithin({last[1].target[1]}) \subseteq Omitted
     /\ pc = "finished" =>
          NestedWithin({last[1].target[1]}) \cap Range(finished[1].sd_jwt.disclosures) = {}

\* The builder the calls were made on, its marks left aside: conceal and
\* disclose change nothing but disclosures_to_omit.
BuilderOf(s) == PresentationBuilderNew(s, RequiredHasher(s)).ok

\* The step from the parent of the element `segments` lead to, to that
\* element: None, or Some([value, disclosure]).
FinalStep(b, segments) ==
  LET Final(parent, segment) ==
        IF ~IsSome(parent) THEN None
        ELSE traverse_disclosable_object_step(parent[1].value, segment, b.disclosures)
  IN  Final(traverse_disclosable_object(b.object, SubSeq(segments, 1, Len(segments) - 1),
                                        b.disclosures, <<>>),
            segments[Len(segments)])

\* Whether an element is itself selectively disclosable: the step from its
\* parent to it goes through a disclosure.
Own(step) == IsSome(step) /\ IsSome(step[1].disclosure)

\* Whether the element named by the final segment of `path` is.
OwnDisclosure(b, path) == Own(FinalStep(b, PathSegments(path)))

\* C12: when the last call was conceal(path) and the element named by the
\* final segment of the path is not itself selectively disclosable, the call
\* failed with InvalidPath and left no builder, hence no mark.
C12_ConcealPlainRefused ==
  (/\ IsSome(last) /\ last[1].op = "conceal"
   /\ ~OwnDisclosure(BuilderOf(sd_jwt[1].ok), last[1].path)) =>
     /\ ~last[1].ok /\ last[1].error = Some("InvalidPath")
     /\ pc = "refused" /\ builder = None /\ last[1].after = {}

\* The indices of the disclosures of the elements along `path` that are
\* themselves selectively disclosable: the element at the path and its
\* ancestors.
Crossed(b, path) ==
  LET Along(segments) ==
        {FinalStep(b, SubSeq(segments, 1, k))[1].disclosure[1] :
           k \in {n \in 1..Len(segments) : Own(FinalStep(b, SubSeq(segments, 1, n)))}}
  IN  Along(PathSegments(path))

\* C13: when the last call was a successful disclose(path), the marks are
\* those before the call without the disclosures of the element at the path
\* and of the disclosable ancestors crossed along it; every other mark is
\* as it was.
C13_DiscloseUnmarksCrossed ==
  (IsSome(last) /\ last[1].op = "disclose" /\ last[1].ok) =>
     /\ last[1].after = last[1].before \ Crossed(BuilderOf(sd_jwt[1].ok), last[1].path)
     /\ pc = "building" => builder[1].disclosures_to_omit = last[1].after

\* A successful disclose that unmarked an element and an ancestor of it and
\* left another mark.
C13_Witness ==
  /\ IsSome(last) /\ last[1].op = "disclose" /\ last[1].ok
  /\ Cardinality(last[1].before \ last[1].after) >= 2
  /\ last[1].after # {}

\* The disclosures marked for omission when finish is called.
Marked ==
  LET marks == IF IsSome(last) THEN last[1].after ELSE {}
  IN  {BuilderOf(sd_jwt[1].ok).disclosures[i + 1].value : i \in marks}

\* The place of the first occurrence of `d` in `seq`.
FirstAt(seq, d) == CHOOSE i \in 1..Len(seq) : seq[i] = d /\ \A j \in 1..(i - 1) : seq[j] # d

\* `seq` lists elements of `input` in the order of `input`.
InOrderOf(seq, input) ==
  \A i, j \in 1..Len(seq) : i < j => FirstAt(input, seq[i]) < FirstAt(input, seq[j])

\* C14: finish returns the unmarked disclosures in the SD-JWT and the marked
\* ones as omitted, each in the order of issuance, and every disclosure the
\* builder was given is in exactly one place of the two lists.
C14_FinishPartitions ==
  pc = "finished" =>
    LET input   == sd_jwt[1].ok.disclosures
        kept    == finished[1].sd_jwt.disclosures
        omitted == finished[1].omitted_disclosures
    IN  /\ Range(kept) = Range(input) \ Marked
        /\ Range(omitted) = Marked
        /\ InOrderOf(kept, input) /\ InOrderOf(omitted, input)
        /\ \A d \in Range(input) :
              Cardinality({i \in 1..Len(kept \o omitted) : (kept \o omitted)[i] = d}) = 1

\* finish of a builder with marked and unmarked disclosures, three in all.
C14_Witness ==
  /\ pc = "finished"
  /\ Len(finished[1].sd_jwt.disclosures) >= 1
  /\ Len(finished[1].omitted_disclosures) >= 1
  /\ Len(finished[1].sd_jwt.disclosures) + Len(finished[1].omitted_disclosures) >= 3

\* C26: the issuer JWT of the SdJwt that finish returns, after any conceal,
\* disclose and conceal_all calls, is the one of the SdJwt the builder was
\* made from: header, `_sd`, `_sd_alg`, cnf, the other claims and the
\* signature, and so the string it serializes to.
C26_IssuerJwtKept ==
  pc = "finished" =>
    LET given    == sd_jwt[1].ok.jwt
        returned == finished[1].sd_jwt.jwt
    IN  /\ returned.header = given.header
        /\ returned.claims._sd = given.claims._sd
        /\ returned.claims._sd_alg = given.claims._sd_alg
        /\ returned.claims.cnf = given.claims.cnf
        /\ returned.claims.properties = given.claims.properties
        /\ returned.signature = given.signature
        /\ returned = given
        /\ JwtDisplay(returned, "SdJwtClaims") = JwtDisplay(given, "SdJwtClaims")

\* finish of a builder that omits a disclosure of an SD-JWT with digests,
\* `_sd_alg` and cnf among its claims.
C26_Witness ==
  /\ pc = "finished"
  /\ Len(finished[1].omitted_disclosures) >= 1
  /\ Len(sd_jwt[1].ok.jwt.claims._sd) >= 1
  /\ IsSome(sd_jwt[1].ok.jwt.claims._sd_alg)
  /\ IsSome(sd_jwt[1].ok.jwt.claims.cnf)
  /\ calls >= 1

\* C28: for an SD-JWT that SdJwtBuilder issued, after any successful
\* conceal, disclose and conceal_all calls on its presentation builder,
\* into_disclosed_object of the finished SD-JWT with the same hasher
\* succeeds, and so does not fail with UnusedDisclosures.
C28_PresentedDecodes ==
  (pc = "disclosed" /\ sd_jwt[1] \in IssuedSdJwts) =>
    /\ ~IsErr(decoded[1], "UnusedDisclosures")
    /\ IsOk(decoded[1])

\* C17: SdJwtPresentationBuilder::new fails with InvalidHasher when the
\* alg_name of the hasher given differs from the `_sd_alg` claim of the
\* SD-JWT, "sha-256" when it has none, and succeeds when they are equal.
C17_HasherChecked ==
  (IsSome(last) /\ last[1].op = "new") =>
    LET _sd_alg  == sd_jwt[1].ok.jwt.claims._sd_alg
        required == IF IsSome(_sd_alg) THEN _sd_alg[1] ELSE <<115, 104, 97, 45, 50, 53, 54>>
    IN  IF last[1].hasher # required
        THEN ~last[1].ok /\ last[1].error = Some("InvalidHasher") /\ builder = None
        ELSE /\ last[1].ok /\ pc \in {"building", "finished", "disclosed"}
             /\ pc = "building" => IsSome(builder)

\* new succeeded with the custom hasher the SD-JWT names.
C17_Witness ==
  /\ IsSome(last) /\ last[1].op = "new" /\ last[1].ok
  /\ last[1].hasher = KeyX

(***************************************************************************)
(* KeyBindingJwtBuilder: claims are set, finish makes the KB-JWT of an     *)
(* SD-JWT, which may then be attached to it.                               *)
(*   kb_claims   the claims object of the KeyBindingJwtBuilder             *)
(*   kb_call     None, or Some of the hasher, the alg and the signer's     *)
(*               answer given to the last finish, and the calls of the     *)
(*               signer that finish made                                   *)
(*   kb_jwt      None, or Some of what the last finish returned            *)
(***************************************************************************)
\* SD-JWTs of the issuer (`_sd_alg` "sha-256", and "x" of a custom hasher)
\* and a parsed one without `_sd_alg`.
KbSdJwts ==
  {Issued(<<>>),
   Issued(<<Property(<<KeyLowA, KeyB, KeyC>>), Element(<<KeyD>>, 1)>>),
   SdJwtBuilderFinish(MakeConcealableAll(SdJwtBuilderNew(Object3), KeyX,
                                         <<Property(<<KeyLowA>>)>>),
                      KeyX, KeyX, KeyX, Signature),
   SdJwtParse(TokenWithoutAlg)}

\* KeyBindingJwtBuilder::new(), ::from_object({"k": 1, "sd_hash": "s"}) and
\* ::from_object({"aud": "x", "iat": "x", "nonce": 1})
KbObjects ==
  {KeyBindingJwtBuilderNew,
   from_object(ObjectOf({<<<<107>>, JNum(1)>>, <<KeySdHash, JStr(<<Ch.s>>)>>})),
   from_object(ObjectOf({<<KeyAud, JStr(<<Ch.x>>)>>, <<KeyIat, JStr(<<Ch.x>>)>>,
                         <<KeyNonce, JNum(1)>>}))}

KbIats == {1, 2}
KbStrings == {<<Ch.x>>, <<Ch.s>>}
KbHashers == {SHA_ALG_NAME, KeyX}
KbAlgs == {KeyX, AlgNone}
KbSignatures == {Ok(<<1>>), Err("sign", <<>>)}

InitKb ==
  /\ pc = "kb"
  /\ sd_jwt \in {Some(s) : s \in {j \in KbSdJwts : IsOk(j)}}
  /\ kb_claims \in KbObjects
  /\ kb_call = None
  /\ kb_jwt = None
  /\ token = <<>>
  /\ serialized = None
  /\ CodecIdle
  /\ DisclosureIdle
  /\ PresentationIdle
  /\ BuilderIdle

beside_kb ==
  <<token, serialized, encoder_vars, decoder_vars, disclosure_vars, presentation_vars,
    builder_vars>>

\* builder.iat(value)
KbIat(value) ==
  /\ pc = "kb"
  /\ kb_claims' = iat(kb_claims, value)
  /\ UNCHANGED <<pc, sd_jwt, kb_call, kb_jwt, beside_kb>>

\* builder.aud(value)
KbAud(value) ==
  /\ pc = "kb"
  /\ kb_claims' = aud(kb_claims, value)
  /\ UNCHANGED <<pc, sd_jwt, kb_call, kb_jwt, beside_kb>>

\* builder.nonce(value)
KbNonce(value) ==
  /\ pc = "kb"
  /\ kb_claims' = nonce(kb_claims, value)
  /\ UNCHANGED <<pc, sd_jwt, kb_call, kb_jwt, beside_kb>>

\* builder.finish(&sd_jwt, hasher, alg, signer)
KbFinish(hasher, alg, raw_sig) ==
  /\ pc = "kb"
  /\ pc' = "kb_done"
  /\ kb_call' = Some([hasher |-> hasher, alg |-> alg, raw_sig |-> raw_sig,
                      signed |-> KeyBindingJwtBuilderFinishSigning(
                                   kb_claims, sd_jwt[1].ok, hasher, alg, raw_sig).signed])
  /\ kb_jwt' = Some(KeyBindingJwtBuilderFinish(kb_claims, sd_jwt[1].ok, hasher, alg, raw_sig))
  /\ UNCHANGED <<sd_jwt, kb_claims, beside_kb>>

\* sd_jwt.attach_key_binding_jwt(kb_jwt); a further KB-JWT may then be asked
\* for.
KbAttach ==
  /\ pc = "kb_done"
  /\ IsOk(kb_jwt[1])
  /\ pc' = "kb"
  /\ sd_jwt' = Some(Ok(attach_key_binding_jwt(sd_jwt[1].ok, kb_jwt[1].ok)))
  /\ UNCHANGED <<kb_claims, kb_call, kb_jwt, beside_kb>>

NextKb ==
  \/ \E value \in KbIats : KbIat(value)
  \/ \E value \in KbStrings : KbAud(value)
  \/ \E value \in KbStrings : KbNonce(value)
  \/ \E hasher \in KbHashers, alg \in KbAlgs, raw_sig \in KbSignatures :
       KbFinish(hasher, alg, raw_sig)
  \/ KbAttach

SpecKb == InitKb /\ [][NextKb]_vars

\* The presentation of an SD-JWT without a KB-JWT: the issuer's JWT and every
\* disclosure, each followed by a tilde.
WithoutKb(s) ==
  JwtDisplay(s.jwt, "SdJwtClaims") \o <<Ch.tilde>>
    \o Concat([i \in 1..Len(s.disclosures) |-> s.disclosures[i].disclosure \o <<Ch.tilde>>])

\* C11: the KB-JWT that finish returns carries as sd_hash the hasher's encoded
\* digest of the SD-JWT's presentation without a KB-JWT, the string that ends
\* with the tilde before the empty KB slot.
C11_SdHash ==
  (pc = "kb_done" /\ IsOk(kb_jwt[1])) =>
    kb_jwt[1].ok.claims.sd_hash = encoded_digest(kb_call[1].hasher, WithoutKb(sd_jwt[1].ok))

C11_Witness ==
  /\ pc = "kb_done" /\ IsOk(kb_jwt[1])
  /\ Len(sd_jwt[1].ok.disclosures) >= 1
  /\ kb_call[1].hasher = KeyX

\* The algorithm an SD-JWT requires: its `_sd_alg`, "sha-256" without one.
RequiredAlg(s) ==
  IF IsSome(s.jwt.claims._sd_alg) THEN s.jwt.claims._sd_alg[1]
  ELSE <<115, 104, 97, 45, 50, 53, 54>>

\* C15: finish fails with DataTypeMismatch when alg is "none" or the SD-JWT
\* already has a KB-JWT, and with MissingHasher when the hasher's alg_name
\* differs from the algorithm the SD-JWT requires; when both hold, the
\* checks being made in this order, with DataTypeMismatch.  In none of
\* these cases is a KeyBindingJwt returned.
C15_RefusalsInOrder ==
  pc = "kb_done" =>
    LET mismatch == \/ kb_call[1].alg = <<110, 111, 110, 101>>
                    \/ IsSome(sd_jwt[1].ok.key_binding_jwt)
        other    == kb_call[1].hasher # RequiredAlg(sd_jwt[1].ok)
    IN  /\ mismatch => IsErr(kb_jwt[1], "DataTypeMismatch")
        /\ (~mismatch /\ other) => IsErr(kb_jwt[1], "MissingHasher")
        /\ (mismatch \/ other) => ~IsOk(kb_jwt[1])

\* finish refused an SD-JWT that has a KB-JWT, alg and hasher being fine.
C15_Witness ==
  /\ pc = "kb_done"
  /\ IsSome(sd_jwt[1].ok.key_binding_jwt)
  /\ kb_call[1].alg # AlgNone
  /\ kb_call[1].hasher = RequiredAlg(sd_jwt[1].ok)
  /\ IsErr(kb_jwt[1], "DataTypeMismatch")

\* The claims of the builder have the shape of KeyBindingJwtClaims once
\* sd_hash is set: iat a number, aud and nonce strings.
ClaimsShaped(claims) ==
  /\ KeyIat \in DOMAIN claims /\ IsNum(claims[KeyIat])
  /\ KeyAud \in DOMAIN claims /\ IsStr(claims[KeyAud])
  /\ KeyNonce \in DOMAIN claims /\ IsStr(claims[KeyNonce])

\* C29: finish calls the signer at most once, and only when alg is not
\* "none", the SD-JWT has no KB-JWT, the hasher is the one the SD-JWT
\* requires and the claims have their shape; when one of these fails,
\* finish returns an error and the signer was not called.
C29_SignerAfterChecks ==
  pc = "kb_done" =>
    LET passed == /\ kb_call[1].alg # <<110, 111, 110, 101>>
                  /\ ~IsSome(sd_jwt[1].ok.key_binding_jwt)
                  /\ kb_call[1].hasher = RequiredAlg(sd_jwt[1].ok)
                  /\ ClaimsShaped(kb_claims)
    IN  /\ Len(kb_call[1].signed) <= 1
        /\ Len(kb_call[1].signed) = 1 => passed
        /\ ~passed => (Len(kb_call[1].signed) = 0 /\ ~IsOk(kb_jwt[1]))

\* finish refused claims without their shape, every other check passing
\* and the signer ready to sign, without calling the signer.
C29_Witness ==
  /\ pc = "kb_done"
  /\ kb_call[1].alg # AlgNone
  /\ ~IsSome(sd_jwt[1].ok.key_binding_jwt)
  /\ kb_call[1].hasher = RequiredAlg(sd_jwt[1].ok)
  /\ IsOk(kb_call[1].raw_sig)
  /\ KeyIat \in DOMAIN kb_claims /\ ~IsNum(kb_claims[KeyIat])
  /\ IsErr(kb_jwt[1], "DeserializationError")
  /\ kb_call[1].signed = <<>>

(***************************************************************************)
(* The holder binds an SD-JWT and then presents it: KeyBindingJwtBuilder's *)
(* finish, attach_key_binding_jwt, into_presentation, conceal, conceal_all *)
(* and disclose, and finish of the presentation builder.                   *)
(***************************************************************************)
\* The SD-JWTs the holder received.
BoundSdJwts ==
  {Issued(<<Property(<<KeyLowA>>)>>),
   Issued(<<Property(<<KeyLowA, KeyB, KeyC>>), Element(<<KeyD>>, 1)>>)}

\* KeyBindingJwtBuilder::new().iat(1).aud("x").nonce("s")
BoundClaims == nonce(aud(iat(KeyBindingJwtBuilderNew, 1), <<Ch.x>>), <<Ch.s>>)

InitBound ==
  /\ pc = "kb"
  /\ sd_jwt \in {Some(s) : s \in BoundSdJwts}
  /\ kb_claims = BoundClaims
  /\ kb_call = None
  /\ kb_jwt = None
  /\ token = <<>>
  /\ serialized = None
  /\ CodecIdle
  /\ DisclosureIdle
  /\ PresentationIdle
  /\ BuilderIdle

\* sd_jwt.attach_key_binding_jwt(kb_jwt), of the KB-JWT that finish returned
\* for this SD-JWT; the SD-JWT is presented next.
AttachToPresent ==
  /\ pc = "kb_done"
  /\ IsOk(kb_jwt[1])
  /\ pc' = "issued"
  /\ sd_jwt' = Some(Ok(attach_key_binding_jwt(sd_jwt[1].ok, kb_jwt[1].ok)))
  /\ UNCHANGED <<kb_claims, kb_call, kb_jwt, beside_kb>>

NextBound ==
  \/ \E hasher \in KbHashers, alg \in KbAlgs, raw_sig \in KbSignatures :
       KbFinish(hasher, alg, raw_sig)
  \/ AttachToPresent
  \/ \E hasher \in PresentationHashers : NewBuilder(hasher)
  \/ \E path \in PresentedPaths : PresentConceal(path)
  \/ PresentConcealAll
  \/ \E path \in PresentedPaths : PresentDisclose(path)
  \/ PresentFinish

SpecBound == InitBound /\ [][NextBound]_vars

\* The sd_hash of the KB-JWT of an SdJwt is the digest of its presentation
\* up to the tilde before the KB-JWT.
SdHashCurrent(s) ==
  IsSome(s.key_binding_jwt) =>
    s.key_binding_jwt[1].claims.sd_hash = encoded_digest(RequiredAlg(s), WithoutKb(s))

\* C27: in the SdJwt the KB-JWT is attached to, and in the SdJwt that finish
\* of the presentation builder returns, the sd_hash of the KB-JWT is the
\* digest of that SdJwt's presentation up to and including the tilde before
\* the KB-JWT, after disclosures were omitted too.
C27_SdHashCurrent ==
  /\ IsSome(sd_jwt) => SdHashCurrent(sd_jwt[1].ok)
  /\ pc = "finished" => SdHashCurrent(finished[1].sd_jwt)

(***************************************************************************)
(* SdJwtBuilder: a chain of make_concealable, add_decoys and               *)
(* require_key_binding calls on the builder of one object, then finish.    *)
(* A call that fails consumes the builder.                                 *)
(***************************************************************************)
\* Properties and array elements of Object3, a missing property and an
\* index out of bounds.
BuilderTargets ==
  {Property(<<KeyLowA>>), Property(<<KeyLowA, KeyB>>), Property(<<KeyLowA, KeyB, KeyC>>),
   Element(<<KeyD>>, 0), Element(<<KeyD>>, 1),
   Property(<<KeyX>>), Element(<<KeyD>>, 2)}

BuilderDecoyPaths == {<<>>, <<KeyLowA>>, <<KeyD>>, <<KeyX>>}

\* RequiredKeyBinding::Kid("x") and ::Custom("x"), as they serialize.
KeyBinds == {JObj(ObjectOf({<<<<107, 105, 100>>, JStr(<<Ch.x>>)>>})), JStr(<<Ch.x>>)}

MaxBuilderCalls == 3

InitBuilder ==
  /\ pc = "builder"
  /\ sd_builder = Some(SdJwtBuilderNew(Object3))
  /\ sd_log = <<>>
  /\ token = <<>>
  /\ sd_jwt = None
  /\ serialized = None
  /\ CodecIdle
  /\ DisclosureIdle
  /\ PresentationIdle
  /\ KbIdle

beside_builder ==
  <<token, serialized, encoder_vars, decoder_vars, disclosure_vars, presentation_vars, kb_vars>>

\* A call of the chain: the builder it returns, or its refusal, and its
\* entry in the log.
Chained(op, path, element, r) ==
  /\ IF IsOk(r)
     THEN pc' = pc /\ sd_builder' = Some(r.ok)
     ELSE pc' = "refused" /\ sd_builder' = None
  /\ sd_log' = Append(sd_log, [op |-> op, ok |-> IsOk(r), path |-> path, element |-> element,
                               before |-> sd_builder[1].object,
                               draws |-> sd_builder[1].draws])

\* builder.make_concealable(path)
BuilderMakeConcealable(target) ==
  /\ pc = "builder" /\ Len(sd_log) < MaxBuilderCalls
  /\ Chained("make_concealable", target.path, target.element,
             make_concealable(sd_builder[1], EncoderHasher, target.path, target.element))
  /\ UNCHANGED <<sd_jwt, beside_builder>>

\* builder.add_decoys(path, number_of_decoys)
BuilderAddDecoys(path, number_of_decoys) ==
  /\ pc = "builder" /\ Len(sd_log) < MaxBuilderCalls
  /\ Chained("add_decoys", path, None,
             builder_add_decoys(sd_builder[1], EncoderHasher, path, number_of_decoys))
  /\ UNCHANGED <<sd_jwt, beside_builder>>

\* builder.require_key_binding(key_bind)
BuilderRequireKeyBinding(key_bind) ==
  /\ pc = "builder" /\ Len(sd_log) < MaxBuilderCalls
  /\ Chained("require_key_binding", <<>>, None,
             Ok(require_key_binding(sd_builder[1], key_bind)))
  /\ UNCHANGED <<sd_jwt, beside_builder>>

\* builder.finish(signer, alg)
BuilderFinish ==
  /\ pc = "builder"
  /\ pc' = "built"
  /\ sd_jwt' = Some(SdJwtBuilderFinish(sd_builder[1], EncoderHasher, KeyX, KeyX, Signature))
  /\ sd_builder' = None
  /\ UNCHANGED <<sd_log, beside_builder>>

NextBuilder ==
  \/ \E target \in BuilderTargets : BuilderMakeConcealable(target)
  \/ \E path \in BuilderDecoyPaths, n \in 1..MaxDecoys : BuilderAddDecoys(path, n)
  \/ \E key_bind \in KeyBinds : BuilderRequireKeyBinding(key_bind)
  \/ BuilderFinish

SpecBuilder == InitBuilder /\ [][NextBuilder]_vars

\* The disclosure of the value a logged make_concealable call named, with
\* the salt drawn at that call.
DisclosureOfCall(c) ==
  DisclosureNew(gen_rand(RandomBytes(c.draws)),
                IF IsSome(c.element) THEN None ELSE Some(c.path[Len(c.path)]),
                IF IsSome(c.element)
                THEN ValueAt(JObj(c.before), c.path).arr[c.element[1] + 1]
                ELSE ValueAt(JObj(c.before), c.path))

\* The successful make_concealable calls of the log, in call order.
MadeConcealable == SelectSeq(sd_log, LAMBDA c : c.op = "make_concealable" /\ c.ok)

\* C19: the SdJwt that finish returns holds one disclosure for each
\* successful make_concealable call, in call order, and nothing for the
\* add_decoys and require_key_binding calls; it has no KB-JWT.
C19_OneDisclosurePerCall ==
  (pc = "built" /\ IsOk(sd_jwt[1])) =>
    /\ sd_jwt[1].ok.disclosures
         = [k \in 1..Len(MadeConcealable) |-> DisclosureOfCall(MadeConcealable[k])]
    /\ sd_jwt[1].ok.key_binding_jwt = None

\* finish after a make_concealable, an add_decoys and a require_key_binding.
C19_Witness ==
  /\ pc = "built" /\ IsOk(sd_jwt[1])
  /\ Len(sd_jwt[1].ok.disclosures) = 1
  /\ \E k \in 1..Len(sd_log) : sd_log[k].op = "add_decoys"
  /\ \E k \in 1..Len(sd_log) : sd_log[k].op = "require_key_binding"

====
